---------------------------- MODULE Spec2Model ----------------------------
(***************************************************************************)
(* A model of tonic2axum's build-time binding resolver, of its registry of *)
(* synthesized messages, of its generator, and of the runtime's streaming  *)
(* adapters.                                                               *)
(*                                                                         *)
(*   Message, Field, ExistingMessages, NewMessages                         *)
(*       tonic2axum-build/src/message.rs                                   *)
(*   HttpOption (parse_pattern, parse_body, parse_query_str, parse),       *)
(*   HttpOptions (calculate_messages, get_http_options)                    *)
(*       src/http.rs                                                       *)
(*   HttpOptions (parse_http_options, extract_options)                     *)
(*       src/http.rs                                                       *)
(*   Builder (the suffix setters, state types, OpenAPI, WebSockets)        *)
(*       tonic2axum-build/src/builder.rs                                   *)
(*   Generator, FunctionParts, ServiceType                                 *)
(*       tonic2axum-build/src/codegen/generator.rs, helpers.rs             *)
(*   TypeReplacer                                                          *)
(*       tonic2axum-build/src/type_replace.rs                              *)
(*   FakeGrpcFrameStreamingHelper, make_stream_request,                    *)
(*   process_ws_stream_response                                            *)
(*       tonic2axum/src/streaming/mod.rs, http.rs, ws.rs                   *)
(*                                                                         *)
(* Text is modelled at the level of tokens: a path template is a sequence  *)
(* of tokens, each one of the delimiters "/", "{", "}" or a run of other   *)
(* characters; a Rust type is a record of its wrapper and its base path.   *)
(* Generated names are strings built by concatenation, as format! does.    *)
(***************************************************************************)
EXTENDS Integers, Sequences, FiniteSets, TLC

VARIABLES
    config,             \* GeneratorConfig: the three naming suffixes
    options,            \* HttpOptions.0: service name -> method name -> HttpOption
    existing_messages,  \* ExistingMessages.0: message name -> Message
    body_messages,      \* NewMessages.body_messages: origin name -> Vec<Message>
    query_messages,     \* NewMessages.query_messages: origin name -> Vec<Message>
    modules,            \* Generator.modules: one module per generated service
    buf,                \* the output buffers: package -> what was appended, in order
    rerun,              \* the output buffers of a second run over the same inputs
    phase,              \* "running", or "panicked" once generate has panicked
    calls,              \* number of operations performed so far
    last,               \* the last operation: its arguments and what it returned
    fds,                \* the FileDescriptorSet the bindings are read from
    msg,                \* a Message under add_field / remove_field / remove_all_fields
    helper,             \* the streaming helper shared by the request body and the decoder
    socket,             \* the WebSocket a streaming response is written to
    ty                  \* a syn::Type under the TypeReplacer

vars == <<config, options, existing_messages, body_messages, query_messages,
          modules, buf, rerun, phase, calls, last, fds, msg, helper, socket, ty>>

\* The state of the parts a behaviour does not exercise.
aside == <<fds, msg, helper, socket, ty>>

Idle ==
    /\ fds = << >>
    /\ msg = << >>
    /\ helper = << >>
    /\ socket = << >>
    /\ ty = << >>

----------------------------------------------------------------------------
(* Bounds *)

\* Operations performed in one behaviour.
MaxCalls == 2

----------------------------------------------------------------------------
(* Option<T> and Result<T, E> *)

None == [some |-> FALSE]
Some(v) == [some |-> TRUE, value |-> v]

Ok(v) == [ok |-> TRUE, value |-> v]
Err(e) == [ok |-> FALSE, error |-> e]

RECURSIVE Concat(_)
Concat(ss) == IF ss = <<>> THEN "" ELSE Head(ss) \o Concat(Tail(ss))

----------------------------------------------------------------------------
(* Field *)

\* A syn::Type: a base path, optionally inside one generic wrapper.
Type(wrap, base) == [wrap |-> wrap, base |-> base]

\* type_.to_token_stream().to_string(): the tokens separated by spaces.
type_name(type_) ==
    IF type_.wrap = "" THEN type_.base
    ELSE type_.wrap \o " < " \o type_.base \o " >"

\* Field::new
Field(name, type_, doc_comments) ==
    [name |-> name, type_ |-> type_, doc_comments |-> doc_comments]

\* impl PartialEq for Field: name and type, not the doc comments.
FieldEq(a, b) == a.name = b.name /\ a.type_ = b.type_

\* <[Field]>::contains
contains(fields, field) == \E i \in 1..Len(fields) : FieldEq(fields[i], field)

----------------------------------------------------------------------------
(* Message *)

\* Message::new
Message(name, doc_comments) ==
    [name |-> name, doc_comments |-> doc_comments, fields |-> <<>>, field_count |-> 0]

add_fields(message, fields) ==
    [message EXCEPT !.fields = @ \o fields, !.field_count = @ + Len(fields)]

add_field(message, field) ==
    [message EXCEPT !.fields = Append(@, field), !.field_count = @ + 1]

\* Iterator::position: the first index whose field has this name, 0 for none.
position(fields, name) ==
    IF \E i \in 1..Len(fields) : fields[i].name = name
    THEN CHOOSE i \in 1..Len(fields) :
            /\ fields[i].name = name
            /\ \A j \in 1..(i - 1) : fields[j].name # name
    ELSE 0

\* Vec::remove
RemoveAt(s, i) == SubSeq(s, 1, i - 1) \o SubSeq(s, i + 1, Len(s))

\* remove_field that hands out the field and leaves it in the message.
remove_field_kept(message, name) ==
    LET index == position(message.fields, name) IN
    IF index = 0
    THEN [message |-> message, field |-> None]
    ELSE [message |-> message, field |-> Some(message.fields[index])]

\* Message::remove_field: the message afterwards and the removed field, if any.
remove_field(message, name) ==
    LET index == position(message.fields, name) IN
    IF index = 0
    THEN [message |-> message, field |-> None]
    ELSE [message |-> [message EXCEPT !.fields = RemoveAt(@, index)],
          field |-> Some(message.fields[index])]

\* remove_all_fields that forgets the count with the fields.
remove_all_fields_counted(message) ==
    [message |-> [message EXCEPT !.fields = <<>>, !.field_count = 0],
     fields |-> message.fields]

\* Message::remove_all_fields: mem::take
remove_all_fields(message) ==
    [message |-> [message EXCEPT !.fields = <<>>], fields |-> message.fields]

is_empty(message) == message.fields = <<>>

\* An intactness test that only asks for no more fields than counted.
is_intact_at_most(message) == message.field_count >= Len(message.fields)

is_intact(message) == message.field_count = Len(message.fields)

\* intact_single_field without the count.
intact_any_count(message) == is_intact(message)

intact_single_field(message) == is_intact(message) /\ message.field_count = 1

\* same_fields that compares the two lists position by position.
same_fields_in_order(message, fields) == message.fields = fields

same_fields(message, fields) ==
    /\ Len(message.fields) = Len(fields)
    /\ \A i \in 1..Len(message.fields) : contains(fields, message.fields[i])


----------------------------------------------------------------------------
(* GeneratorConfig and the Builder's suffix setters *)

\* impl Default for GeneratorConfig (the naming suffixes of the struct types)
DefaultConfig ==
    [state_types |-> << >>, generate_openapi |-> FALSE, generate_web_sockets |-> FALSE,
     struct_doc_comments |-> << >>,
     value_suffix |-> "__", type_suffix |-> "__", body_message_suffix |-> "Body", query_message_suffix |-> "Query"]

\* Builder::type_suffix: any suffix, the empty one included.
type_suffix(cfg, suffix) == Ok([cfg EXCEPT !.type_suffix = suffix])

\* Builder::body_message_suffix: refuses only the empty suffix.
body_message_suffix(cfg, suffix) ==
    IF suffix = "" THEN Err("Body message suffix cannot be empty")
    ELSE Ok([cfg EXCEPT !.body_message_suffix = suffix])

\* Builder::query_message_suffix: refuses only the empty suffix.
query_message_suffix(cfg, suffix) ==
    IF suffix = "" THEN Err("Query message suffix cannot be empty")
    ELSE Ok([cfg EXCEPT !.query_message_suffix = suffix])

\* Suffixes a build script may hand to the setters.
TypeSuffixArgs == {"__", ""}
MessageSuffixArgs == {"", "Body", "Query"}

\* The configurations a chain of setter calls that all return Ok ends with.
AcceptedConfigs ==
    { query_message_suffix(
          body_message_suffix(
              type_suffix(DefaultConfig, t).value, b).value, q).value :
        <<t, b, q>> \in
            { x \in TypeSuffixArgs \X MessageSuffixArgs \X MessageSuffixArgs :
                /\ body_message_suffix(DefaultConfig, x[2]).ok
                /\ query_message_suffix(DefaultConfig, x[3]).ok } }

----------------------------------------------------------------------------
(* NewMessages *)

\* HashMap::entry(name).or_default(): the bucket, empty when the key is new.
bucket_of(messages, name) ==
    IF name \in DOMAIN messages THEN messages[name] ELSE <<>>

\* HashMap with `name` bound to `bucket`.
with_bucket(messages, name, bucket) ==
    [k \in DOMAIN messages \cup {name} |-> IF k = name THEN bucket ELSE messages[k]]

\* A scan that finds nothing.
first_match_skipped(bucket, fields) == 0

\* The first entry of the bucket with the same fields, 0 for none.
first_match(bucket, fields) ==
    IF \E i \in 1..Len(bucket) : same_fields(bucket[i], fields)
    THEN CHOOSE i \in 1..Len(bucket) :
            /\ same_fields(bucket[i], fields)
            /\ \A j \in 1..(i - 1) : ~same_fields(bucket[j], fields)
    ELSE 0

\* A numbering that starts at 2 with the first variant.
variant_name_numbered(bucket, input_message_name, suffix, type_suffix_) ==
    input_message_name \o suffix \o ToString(Len(bucket) + 2) \o type_suffix_

\* The name of a new variant: unnumbered for the first of its origin.
variant_name(bucket, input_message_name, suffix, type_suffix_) ==
    IF bucket = <<>>
    THEN input_message_name \o suffix \o type_suffix_
    ELSE input_message_name \o suffix \o ToString(Len(bucket) + 1) \o type_suffix_

\* NewMessages::get_or_create_message: the map afterwards and the name returned.
get_or_create_message(messages, input_message_name, msg_doc_comments, fields, suffix, type_suffix_) ==
    LET bucket == bucket_of(messages, input_message_name)
        found == first_match(bucket, fields)
    IN  IF found # 0
        THEN [messages |-> with_bucket(messages, input_message_name, bucket),
              name |-> bucket[found].name]
        ELSE LET name == variant_name(bucket, input_message_name, suffix, type_suffix_)
                 message == add_fields(Message(name, msg_doc_comments), fields)
             IN  [messages |-> with_bucket(messages, input_message_name,
                                           Append(bucket, message)),
                  name |-> name]

\* NewMessages::get_or_create_body_message
get_or_create_body_message(body, input_message_name, msg_doc_comments, fields, cfg) ==
    get_or_create_message(body, input_message_name, msg_doc_comments, fields,
                          cfg.body_message_suffix, cfg.type_suffix)

\* NewMessages::get_or_create_query_message
get_or_create_query_message(query, input_message_name, msg_doc_comments, fields, cfg) ==
    get_or_create_message(query, input_message_name, msg_doc_comments, fields,
                          cfg.query_message_suffix, cfg.type_suffix)

\* NewMessages::body_messages / query_messages: values().flatten(), as a set.
flatten(messages) ==
    UNION { { messages[k][i] : i \in 1..Len(messages[k]) } : k \in DOMAIN messages }

----------------------------------------------------------------------------
(* ExistingMessages *)

\* ExistingMessages::get_message
get_message(existing, name) ==
    IF name \in DOMAIN existing THEN Some(existing[name]) ELSE None

----------------------------------------------------------------------------
(* MessageHandling, MessageDetails, MethodDetails *)

VerbatimRequest == "VerbatimRequest"
VerbatimBinding == "VerbatimBinding"
ExtractFields == "ExtractFields"

\* MessageDetails: the target type, the handling, and the identifiers the
\* handling binds (the payload of VerbatimBinding, the fields handed to the
\* registry for ExtractFields, nothing for VerbatimRequest).
MessageDetails(ident, handling, fields) ==
    [ident |-> ident, handling |-> handling, fields |-> fields]

\* The names of a list of fields, in order.
idents(fields) == [i \in 1..Len(fields) |-> fields[i].name]

----------------------------------------------------------------------------
(* HttpOption *)

HttpOption(method, pattern, body) ==
    [method |-> method, pattern |-> pattern, body |-> body]

\* HttpOption::build_path: the pattern as it is.
build_path(option) == option.pattern

\* str::split('/'): the runs of tokens between the "/" tokens.
RECURSIVE split(_, _)
split(tokens, part) ==
    IF tokens = <<>> THEN <<part>>
    ELSE IF Head(tokens) = "/" THEN <<part>> \o split(Tail(tokens), <<>>)
    ELSE split(Tail(tokens), Append(part, Head(tokens)))

starts_with(part, c) == part # <<>> /\ part[1] = c
ends_with(part, c) == part # <<>> /\ part[Len(part)] = c

\* parse_pattern that passes over a {name} part naming no field.
RECURSIVE parse_parts_lenient(_, _, _, _)
parse_parts_lenient(parts, i, message, path_fields) ==
    IF i > Len(parts)
    THEN [ok |-> TRUE, message |-> message, path_fields |-> path_fields]
    ELSE LET part == parts[i] IN
         IF starts_with(part, "{") /\ ends_with(part, "}")
         THEN LET field_name == Concat(SubSeq(part, 2, Len(part) - 1))
                  removed == remove_field(message, field_name)
              IN  IF removed.field.some
                  THEN parse_parts_lenient(parts, i + 1, removed.message,
                                           Append(path_fields, removed.field.value))
                  ELSE parse_parts_lenient(parts, i + 1, message, path_fields)
         ELSE parse_parts_lenient(parts, i + 1, message, path_fields)

\* HttpOption::parse_pattern, from part i on: every {name} part removes the
\* field of that name from the message or fails.
RECURSIVE parse_parts(_, _, _, _)
parse_parts(parts, i, message, path_fields) ==
    IF i > Len(parts)
    THEN [ok |-> TRUE, message |-> message, path_fields |-> path_fields]
    ELSE LET part == parts[i] IN
         IF starts_with(part, "{") /\ ends_with(part, "}")
         THEN LET field_name == Concat(SubSeq(part, 2, Len(part) - 1))
                  removed == remove_field(message, field_name)
              IN  IF removed.field.some
                  THEN parse_parts(parts, i + 1, removed.message,
                                   Append(path_fields, removed.field.value))
                  ELSE [ok |-> FALSE, error |-> "Path field not found: " \o field_name]
         ELSE parse_parts(parts, i + 1, message, path_fields)

\* HttpOption::parse_pattern
parse_pattern(option, message) ==
    parse_parts(split(option.pattern, <<>>), 1, message, <<>>)

\* parse_body's wildcard arm with intactness read after the fields are taken.
parse_body_wildcard_late(message, body, cfg) ==
    LET taken == remove_all_fields(message)
        intact == is_intact(taken.message)
    IN  IF intact
        THEN [ok |-> TRUE, message |-> taken.message, body_messages |-> body,
              body |-> Some(MessageDetails(message.name, VerbatimRequest, <<>>))]
        ELSE LET created == get_or_create_body_message(
                                body, message.name, message.doc_comments,
                                taken.fields, cfg)
             IN  [ok |-> TRUE, message |-> taken.message,
                  body_messages |-> created.messages,
                  body |-> Some(MessageDetails(created.name, ExtractFields,
                                               idents(taken.fields)))]

\* parse_body's wildcard arm leaving the fields of an intact message in it.
parse_body_wildcard_keeping(message, body, cfg) ==
    LET intact == is_intact(message)
        taken == remove_all_fields(message)
    IN  IF intact
        THEN [ok |-> TRUE, message |-> message, body_messages |-> body,
              body |-> Some(MessageDetails(message.name, VerbatimRequest, <<>>))]
        ELSE LET created == get_or_create_body_message(
                                body, message.name, message.doc_comments,
                                taken.fields, cfg)
             IN  [ok |-> TRUE, message |-> taken.message,
                  body_messages |-> created.messages,
                  body |-> Some(MessageDetails(created.name, ExtractFields,
                                               idents(taken.fields)))]

\* HttpOption::parse_body, the wildcard body
parse_body_wildcard(message, body, cfg) ==
    LET intact == is_intact(message)
        taken == remove_all_fields(message)
    IN  IF intact
        THEN [ok |-> TRUE, message |-> taken.message, body_messages |-> body,
              body |-> Some(MessageDetails(message.name, VerbatimRequest, <<>>))]
        ELSE LET created == get_or_create_body_message(
                                body, message.name, message.doc_comments,
                                taken.fields, cfg)
             IN  [ok |-> TRUE, message |-> taken.message,
                  body_messages |-> created.messages,
                  body |-> Some(MessageDetails(created.name, ExtractFields,
                                               idents(taken.fields)))]

\* parse_body's single field arm with the only-field test tried first.
parse_body_field_single_first(name, message, existing, body, cfg) ==
    LET single == intact_single_field(message)
        removed == remove_field(message, name)
    IN  IF ~removed.field.some
        THEN [ok |-> FALSE, error |-> "Field not found: " \o name]
        ELSE LET field == removed.field.value
                 nested == get_message(existing, type_name(field.type_))
             IN  IF single
                 THEN [ok |-> TRUE, message |-> removed.message, body_messages |-> body,
                       body |-> Some(MessageDetails(removed.message.name,
                                                    VerbatimRequest, <<>>))]
                 ELSE IF nested.some
                 THEN [ok |-> TRUE, message |-> removed.message, body_messages |-> body,
                       body |-> Some(MessageDetails(nested.value.name, VerbatimBinding,
                                                    <<field.name>>))]
                 ELSE LET created == get_or_create_body_message(
                                         body, removed.message.name,
                                         removed.message.doc_comments, <<field>>, cfg)
                      IN  [ok |-> TRUE, message |-> removed.message,
                           body_messages |-> created.messages,
                           body |-> Some(MessageDetails(created.name, ExtractFields,
                                                        <<field.name>>))]

\* HttpOption::parse_body, the single field body
parse_body_field(name, message, existing, body, cfg) ==
    LET single == intact_single_field(message)
        removed == remove_field(message, name)
    IN  IF ~removed.field.some
        THEN [ok |-> FALSE, error |-> "Field not found: " \o name]
        ELSE LET field == removed.field.value
                 nested == get_message(existing, type_name(field.type_))
             IN  IF nested.some
                 THEN [ok |-> TRUE, message |-> removed.message, body_messages |-> body,
                       body |-> Some(MessageDetails(nested.value.name, VerbatimBinding,
                                                    <<field.name>>))]
                 ELSE IF single
                 THEN [ok |-> TRUE, message |-> removed.message, body_messages |-> body,
                       body |-> Some(MessageDetails(removed.message.name,
                                                    VerbatimRequest, <<>>))]
                 ELSE LET created == get_or_create_body_message(
                                         body, removed.message.name,
                                         removed.message.doc_comments, <<field>>, cfg)
                      IN  [ok |-> TRUE, message |-> removed.message,
                           body_messages |-> created.messages,
                           body |-> Some(MessageDetails(created.name, ExtractFields,
                                                        <<field.name>>))]

\* HttpOption::parse_body
parse_body(option, message, existing, body, cfg) ==
    IF option.body.some /\ option.body.value = "*"
    THEN parse_body_wildcard(message, body, cfg)
    ELSE IF option.body.some
    THEN parse_body_field(option.body.value, message, existing, body, cfg)
    ELSE [ok |-> TRUE, message |-> message, body_messages |-> body, body |-> None]

\* parse_query_str that asks for intactness before it asks for emptiness.
parse_query_str_intact_first(message, query, cfg) ==
    IF is_intact(message)
    THEN [message |-> message, query_messages |-> query,
          query_str |-> Some(MessageDetails(message.name, VerbatimRequest, <<>>))]
    ELSE IF is_empty(message)
    THEN [message |-> message, query_messages |-> query, query_str |-> None]
    ELSE LET taken == remove_all_fields(message)
             created == get_or_create_query_message(
                            query, message.name, message.doc_comments,
                            taken.fields, cfg)
         IN  [message |-> taken.message, query_messages |-> created.messages,
              query_str |-> Some(MessageDetails(created.name, ExtractFields,
                                                idents(taken.fields)))]

\* HttpOption::parse_query_str
parse_query_str(message, query, cfg) ==
    IF is_empty(message)
    THEN [message |-> message, query_messages |-> query, query_str |-> None]
    ELSE IF is_intact(message)
    THEN [message |-> message, query_messages |-> query,
          query_str |-> Some(MessageDetails(message.name, VerbatimRequest, <<>>))]
    ELSE LET taken == remove_all_fields(message)
             created == get_or_create_query_message(
                            query, message.name, message.doc_comments,
                            taken.fields, cfg)
         IN  [message |-> taken.message, query_messages |-> created.messages,
              query_str |-> Some(MessageDetails(created.name, ExtractFields,
                                                idents(taken.fields)))]

\* HttpOption::parse with the clone left out: the phases consume the caller's
\* message.
parse_in_place(option, message, existing, body, query, cfg) ==
    LET p == parse_pattern(option, message) IN
    IF ~p.ok
    THEN [ok |-> FALSE, error |-> p.error, message |-> message,
          body_messages |-> body, query_messages |-> query]
    ELSE LET b == parse_body(option, p.message, existing, body, cfg) IN
         IF ~b.ok
         THEN [ok |-> FALSE, error |-> b.error, message |-> p.message,
               body_messages |-> body, query_messages |-> query]
         ELSE LET q == parse_query_str(b.message, query, cfg) IN
              [ok |-> TRUE,
               value |-> [method |-> option.method,
                          path |-> build_path(option),
                          query_str |-> q.query_str,
                          path_fields |-> p.path_fields,
                          body |-> b.body],
               message |-> q.message,
               body_messages |-> b.body_messages,
               query_messages |-> q.query_messages]

\* HttpOption::parse: works on a clone of the message, so the caller's message
\* (`message` of the result) is the one it passed; the registry is written as
\* the phases go, so a failing body phase leaves it as it was.
parse(option, message, existing, body, query, cfg) ==
    LET p == parse_pattern(option, message) IN
    IF ~p.ok
    THEN [ok |-> FALSE, error |-> p.error, message |-> message,
          body_messages |-> body, query_messages |-> query]
    ELSE LET b == parse_body(option, p.message, existing, body, cfg) IN
         IF ~b.ok
         THEN [ok |-> FALSE, error |-> b.error, message |-> message,
               body_messages |-> body, query_messages |-> query]
         ELSE LET q == parse_query_str(b.message, query, cfg) IN
              [ok |-> TRUE,
               value |-> [method |-> option.method,
                          path |-> build_path(option),
                          query_str |-> q.query_str,
                          path_fields |-> p.path_fields,
                          body |-> b.body],
               message |-> message,
               body_messages |-> b.body_messages,
               query_messages |-> q.query_messages]

----------------------------------------------------------------------------
(* HttpOptions *)

\* HttpOptions::get_http_options
get_http_options(opts, service_name, method_name) ==
    IF service_name \in DOMAIN opts /\ method_name \in DOMAIN opts[service_name]
    THEN Some(opts[service_name][method_name])
    ELSE None

\* HttpOptions::calculate_messages: Ok(Some(details)), Ok(None) or Err.
calculate_messages(opts, service_name, method_name, message, existing, body, query, cfg) ==
    LET option == get_http_options(opts, service_name, method_name) IN
    IF option.some
    THEN LET parsed == parse(option.value, message, existing, body, query, cfg) IN
         IF parsed.ok
         THEN [ok |-> TRUE, value |-> Some(parsed.value),
               message |-> parsed.message,
               body_messages |-> parsed.body_messages,
               query_messages |-> parsed.query_messages]
         ELSE parsed
    ELSE [ok |-> TRUE, value |-> None, message |-> message,
          body_messages |-> body, query_messages |-> query]

----------------------------------------------------------------------------
(* The inputs of a run: the structs of the buffer and the declared bindings *)

\* ExistingMessages::add_message
add_message(existing, message) ==
    [k \in DOMAIN existing \cup {message.name} |->
        IF k = message.name THEN message ELSE existing[k]]

RECURSIVE add_all_fields(_, _)
add_all_fields(message, fields) ==
    IF fields = <<>> THEN message
    ELSE add_all_fields(add_field(message, Head(fields)), Tail(fields))

\* ExistingMessages::parse_source: one Message per struct of the source, its
\* fields added one by one, and then the sentinel for the empty request.
RECURSIVE parse_structs(_, _)
parse_structs(existing, structs) ==
    IF structs = <<>> THEN existing
    ELSE LET struct_ == Head(structs)
             message == add_all_fields(Message(struct_.name, struct_.doc_comments),
                                       struct_.fields)
         IN  parse_structs(add_message(existing, message), Tail(structs))

parse_source(existing, src) ==
    add_message(parse_structs(existing, src), Message("()", ""))

u32 == Type("", "u32")
String == Type("", "String")
FilterMsgType == Type("", "FilterMsg")
OptionFilterMsgType == Type("Option", "FilterMsg")

Struct(name, doc_comments, fields) ==
    [name |-> name, doc_comments |-> doc_comments, fields |-> fields]

\* The prost structs in the buffer when the service is generated.
Buffer ==
    << Struct("Item", "An item", << Field("id", u32, "The id"),
                                    Field("name", String, "") >>),
       Struct("Search", "", << Field("id", u32, ""),
                               Field("filter", FilterMsgType, ""),
                               Field("name", String, "") >>),
       Struct("Wrap", "", << Field("filter", FilterMsgType, "") >>),
       Struct("Opt", "", << Field("filter", OptionFilterMsgType, "") >>),
       Struct("FilterMsg", "A filter", << Field("name", String, "") >>) >>

\* Path templates, as tokens.
PItems == << "/", "items" >>
PId == << "/", "items", "/", "{", "id", "}" >>
PIdName == << "/", "items", "/", "{", "id", "}", "/", "{", "name", "}" >>
PNameId == << "/", "items", "/", "{", "name", "}", "/", "by", "/", "{", "id", "}" >>
PName == << "/", "items", "/", "{", "name", "}" >>
PNope == << "/", "items", "/", "{", "nope", "}" >>
PIdId == << "/", "{", "id", "}", "/", "{", "id", "}" >>
POpen == << "/", "items", "/", "{", "id" >>

\* What HttpOptions holds once the descriptor set is read: the bindings
\* declared on the methods of service Items (Items.Plain declares none), and
\* no binding for the one method of service Health.
DeclaredOptions ==
    [service \in {"Items", "Health"} |->
        IF service = "Health" THEN << >>
        ELSE [method \in {"List", "Get", "Create", "Update", "Rename", "RenameOne",
                          "Find", "FindOne", "ByName", "BadPath", "BadBody", "Twice",
                          "Open", "Touch", "Clash"} |->
                CASE method = "List"      -> HttpOption("GET", PItems, None)
                  [] method = "Get"       -> HttpOption("GET", PId, None)
                  [] method = "Create"    -> HttpOption("POST", PItems, Some("*"))
                  [] method = "Update"    -> HttpOption("PUT", PId, Some("*"))
                  [] method = "Rename"    -> HttpOption("PATCH", PItems, Some("name"))
                  [] method = "RenameOne" -> HttpOption("PATCH", PId, Some("name"))
                  [] method = "Find"      -> HttpOption("POST", PItems, Some("filter"))
                  [] method = "FindOne"   -> HttpOption("POST", PId, Some("filter"))
                  [] method = "ByName"    -> HttpOption("GET", PNameId, None)
                  [] method = "BadPath"   -> HttpOption("DELETE", PNope, None)
                  [] method = "BadBody"   -> HttpOption("POST", PItems, Some("nope"))
                  [] method = "Twice"     -> HttpOption("GET", PIdId, None)
                  [] method = "Open"      -> HttpOption("GET", POpen, None)
                  [] method = "Touch"     -> HttpOption("PUT", PIdName, Some("*"))
                  [] method = "Clash"     -> HttpOption("POST", PName, Some("name"))]]

\* The methods generation asks about: (service name, method name).
Calls ==
    { <<"Items", method>> : method \in DOMAIN DeclaredOptions["Items"] \cup {"Plain"} }
        \cup { <<"Health", "Check">> }

\* The configurations binding resolution is run under.
ResolveConfigs == { cfg \in AcceptedConfigs : cfg.body_message_suffix = "Body"
                                              /\ cfg.query_message_suffix = "Query" }

----------------------------------------------------------------------------
(* Binding resolution *)

Init ==
    /\ config \in ResolveConfigs
    /\ options = DeclaredOptions
    /\ existing_messages = parse_source(<<>>, Buffer)
    /\ body_messages = <<>>
    /\ query_messages = <<>>
    /\ modules = <<>>
    /\ buf = <<>>
    /\ rerun = <<>>
    /\ phase = "running"
    /\ calls = 0
    /\ last = [op |-> "new"]
    /\ Idle

\* Generator::generate_func up to the method's details: the input message is
\* looked up in the index and the binding resolved against it.
CalculateMessages(service_name, method_name, input_type) ==
    /\ calls < MaxCalls
    /\ input_type \in DOMAIN existing_messages
    /\ LET r == calculate_messages(options, service_name, method_name,
                                   existing_messages[input_type], existing_messages,
                                   body_messages, query_messages, config)
       IN  /\ existing_messages' = [existing_messages EXCEPT ![input_type] = r.message]
           /\ body_messages' = r.body_messages
           /\ query_messages' = r.query_messages
           /\ last' = [op |-> "calculate_messages",
                       service_name |-> service_name,
                       method_name |-> method_name,
                       input_type |-> input_type,
                       result |-> IF r.ok THEN Ok(r.value) ELSE Err(r.error)]
    /\ calls' = calls + 1
    /\ UNCHANGED <<config, options, modules, buf, rerun, phase>>
    /\ UNCHANGED aside

Next ==
    \E call \in Calls, input_type \in DOMAIN existing_messages :
        CalculateMessages(call[1], call[2], input_type)

Spec == Init /\ [][Next]_vars

----------------------------------------------------------------------------
(* The registry on its own *)

\* Fields handed to the registry: two spellings of the same field that differ
\* in the doc comment only, one of the same name and another type, and one of
\* another name.
RegistryFields ==
    { Field("id", u32, "The id"), Field("id", u32, ""),
      Field("id", String, ""), Field("name", String, "") }

\* The lists of those fields in which no name occurs twice (a struct has no
\* two fields of one name).
FieldLists ==
    { << >> } \cup { <<f>> : f \in RegistryFields }
        \cup { <<p[1], p[2]>> : p \in { x \in RegistryFields \X RegistryFields :
                                          x[1].name # x[2].name } }

Origins == {"Item", "Search"}

InitRegistry ==
    /\ config \in AcceptedConfigs
    /\ options = DeclaredOptions
    /\ existing_messages = parse_source(<<>>, Buffer)
    /\ body_messages = <<>>
    /\ query_messages = <<>>
    /\ modules = <<>>
    /\ buf = <<>>
    /\ rerun = <<>>
    /\ phase = "running"
    /\ calls = 0
    /\ last = [op |-> "new"]
    /\ Idle

GetOrCreateBody(input_message_name, fields) ==
    /\ calls < MaxCalls
    /\ LET r == get_or_create_body_message(body_messages, input_message_name,
                                           "", fields, config)
       IN  /\ body_messages' = r.messages
           /\ last' = [op |-> "get_or_create_body_message",
                       input_message_name |-> input_message_name,
                       fields |-> fields,
                       name |-> r.name]
    /\ calls' = calls + 1
    /\ UNCHANGED <<config, options, existing_messages, query_messages,
                   modules, buf, rerun, phase>>
    /\ UNCHANGED aside

GetOrCreateQuery(input_message_name, fields) ==
    /\ calls < MaxCalls
    /\ LET r == get_or_create_query_message(query_messages, input_message_name,
                                            "", fields, config)
       IN  /\ query_messages' = r.messages
           /\ last' = [op |-> "get_or_create_query_message",
                       input_message_name |-> input_message_name,
                       fields |-> fields,
                       name |-> r.name]
    /\ calls' = calls + 1
    /\ UNCHANGED <<config, options, existing_messages, body_messages,
                   modules, buf, rerun, phase>>
    /\ UNCHANGED aside

NextRegistry ==
    \/ \E input_message_name \in Origins, fields \in FieldLists :
          GetOrCreateBody(input_message_name, fields)
    \/ \E input_message_name \in Origins, fields \in FieldLists :
          GetOrCreateQuery(input_message_name, fields)

SpecRegistry == InitRegistry /\ [][NextRegistry]_vars

----------------------------------------------------------------------------
(* The Builder's state type and output setters *)

\* Builder::custom_state_type (the type itself is not looked at by generation)
custom_state_type(cfg, service_name, state_type) ==
    IF service_name = "" \/ state_type = ""
    THEN Err("Both service name and state type must be provided")
    ELSE Ok([cfg EXCEPT !.state_types =
                [k \in DOMAIN @ \cup {service_name} |->
                    IF k = service_name THEN "Custom" ELSE @[k]]])

\* Builder::generic_state_type
generic_state_type(cfg, service_name) ==
    IF service_name = ""
    THEN Err("Service name cannot be empty")
    ELSE Ok([cfg EXCEPT !.state_types =
                [k \in DOMAIN @ \cup {service_name} |->
                    IF k = service_name THEN "Generic" ELSE @[k]]])

\* Builder::generate_openapi
generate_openapi(cfg, enable) == [cfg EXCEPT !.generate_openapi = enable]

\* Builder::generate_web_sockets
generate_web_sockets(cfg, enable) == [cfg EXCEPT !.generate_web_sockets = enable]

\* config.state_types with every service found on a custom state type.
state_type_of_custom(cfg, service_name) == Some("Custom")

\* HashMap::get on config.state_types
state_type_of(cfg, service_name) ==
    IF service_name \in DOMAIN cfg.state_types
    THEN Some(cfg.state_types[service_name])
    ELSE None

----------------------------------------------------------------------------
(* ServiceType and FunctionParts *)

\* ServiceType::new with the generic mode given no generics.
ServiceType_plain(service_name, state_type) ==
    [state_type_name |-> "S", generics |-> None, use_trait |-> FALSE]

\* ServiceType::new: the name of the state type, the generics of the generic
\* mode, and whether the service trait is imported.
ServiceType(service_name, state_type) ==
    IF state_type = Some("Custom")
    THEN [state_type_name |-> "Custom", generics |-> None, use_trait |-> TRUE]
    ELSE IF state_type = Some("Generic")
    THEN [state_type_name |-> "S", generics |-> Some("::<S>"), use_trait |-> FALSE]
    ELSE [state_type_name |-> "Arc<dyn " \o service_name \o ">",
          generics |-> None, use_trait |-> FALSE]

\* FunctionParts::make_path_extractor: one Path extractor per field, every
\* field name pushed to the extracted fields.
make_path_extractor(fields, extracted_fields) ==
    IF fields = << >>
    THEN [extractor |-> None, extracted_fields |-> extracted_fields]
    ELSE [extractor |-> Some([wrapper |-> "Path", fields |-> idents(fields)]),
          extracted_fields |-> extracted_fields \o idents(fields)]

\* FunctionParts::make_query_extractor: a verbatim query binds the request
\* name and pushes nothing to the extracted fields.
make_query_extractor(query_str, extracted_fields, req_name) ==
    IF ~query_str.some
    THEN [extractor |-> None, extracted_fields |-> extracted_fields]
    ELSE LET message_details == query_str.value IN
         IF message_details.handling = ExtractFields
         THEN [extractor |-> Some([wrapper |-> "Query",
                                   type_name |-> message_details.ident,
                                   binds |-> message_details.fields]),
               extracted_fields |-> extracted_fields \o message_details.fields]
         ELSE IF message_details.handling = VerbatimBinding
         THEN [extractor |-> Some([wrapper |-> "unreachable!"]),
               extracted_fields |-> extracted_fields]
         ELSE [extractor |-> Some([wrapper |-> "Query",
                                   type_name |-> message_details.ident,
                                   binds |-> <<req_name>>]),
               extracted_fields |-> extracted_fields]

\* FunctionParts::make_body_extractor
make_body_extractor(body, extracted_fields, client_streaming, req_name) ==
    IF ~body.some
    THEN [extractor |-> None, extracted_fields |-> extracted_fields]
    ELSE LET message_details == body.value IN
         IF message_details.handling \in {ExtractFields, VerbatimBinding}
         THEN [extractor |-> Some([wrapper |-> "Json",
                                   type_name |-> message_details.ident,
                                   binds |-> message_details.fields]),
               extracted_fields |-> extracted_fields \o message_details.fields]
         ELSE IF client_streaming
         THEN [extractor |-> Some([wrapper |-> "JsonLines",
                                   type_name |-> message_details.ident,
                                   binds |-> <<req_name>>]),
               extracted_fields |-> extracted_fields]
         ELSE [extractor |-> Some([wrapper |-> "Json",
                                   type_name |-> message_details.ident,
                                   binds |-> <<req_name>>]),
               extracted_fields |-> extracted_fields]

\* FunctionParts::make_request_builder: the input message built from the
\* extracted fields, when there are any.
make_request_builder(extracted_fields, input_type, req_name) ==
    IF extracted_fields = << >> THEN None
    ELSE Some([binds |-> req_name, type_name |-> input_type,
               fields |-> extracted_fields])

\* FunctionParts::new
FunctionParts(method_name, method_details, input_type, client_streaming, req_name) ==
    LET path == make_path_extractor(method_details.path_fields, << >>)
        query == make_query_extractor(method_details.query_str,
                                      path.extracted_fields, req_name)
    IN  IF client_streaming /\ query.extracted_fields # << >>
        THEN Err("Client streaming methods are not supported with query or path parameters: (Method: "
                 \o method_name \o ")")
        ELSE LET body == make_body_extractor(method_details.body,
                                             query.extracted_fields,
                                             client_streaming, req_name)
             IN  Ok([path_extractor |-> path.extractor,
                     query_extractor |-> query.extractor,
                     body_extractor |-> body.extractor,
                     request_builder |->
                         make_request_builder(body.extracted_fields, input_type,
                                              req_name)])

\* FunctionParts::verbatim_request
verbatim_request(func_parts) ==
    func_parts.body_extractor.some /\ ~func_parts.request_builder.some

\* FunctionParts::empty_request
empty_request(func_parts) ==
    ~func_parts.body_extractor.some /\ ~func_parts.request_builder.some

----------------------------------------------------------------------------
(* Generator *)

\* prost_build::Method and prost_build::Service, as far as generation reads them.
Method(name, proto_name, input_type, output_type, client_streaming, server_streaming) ==
    [name |-> name, proto_name |-> proto_name,
     input_type |-> input_type, output_type |-> output_type,
     client_streaming |-> client_streaming, server_streaming |-> server_streaming]

Service(name, package, methods) ==
    [name |-> name, package |-> package, methods |-> methods]

\* ValueNames::new: the request binding of a handler.
req_name(cfg) == "req" \o cfg.value_suffix

\* Generator::generate_func, the payload handed to the RPC.
req_payload(func_parts, method, cfg) ==
    IF verbatim_request(func_parts) /\ ~method.client_streaming
    THEN req_name(cfg) \o ".0"
    ELSE IF empty_request(func_parts) /\ method.input_type = "()"
    THEN "()"
    ELSE IF empty_request(func_parts) /\ method.input_type # "()"
    THEN "super::" \o method.input_type \o " {}"
    ELSE req_name(cfg)

\* Generator::generate_openapi_path_attr: the documented parameters, request
\* body and response of a handler; the response names the output type as it
\* is declared, without looking it up.
generate_openapi_path_attr(method_details, method) ==
    [method |-> method_details.method,
     path |-> method_details.path,
     params |-> IF method_details.path_fields = << >> /\ ~method_details.query_str.some
                THEN None
                ELSE Some([path_params |-> idents(method_details.path_fields),
                           query_params |-> IF method_details.query_str.some
                                            THEN <<method_details.query_str.value.ident>>
                                            ELSE << >>]),
     request_body |-> IF method_details.body.some
                      THEN Some([content |-> method_details.body.value.ident,
                                 streaming |-> method.client_streaming])
                      ELSE None,
     responses |-> IF method.output_type = "()" THEN None
                   ELSE Some([body |-> method.output_type,
                              streaming |-> method.server_streaming])]

\* Generator::generate_func, the handler and its route.
make_func(method, method_details, func_parts, service_type, cfg) ==
    [function |->
        [name |-> method.name,
         path_attr |-> IF cfg.generate_openapi
                       THEN Some(generate_openapi_path_attr(method_details, method))
                       ELSE None,
         generics |-> service_type.generics,
         state_type |-> service_type.state_type_name,
         path_extractor |-> func_parts.path_extractor,
         query_extractor |-> func_parts.query_extractor,
         body_extractor |-> func_parts.body_extractor,
         request_builder |-> func_parts.request_builder,
         request_func_name |-> IF method.client_streaming
                               THEN "make_stream_request" ELSE "make_request",
         req_payload |-> req_payload(func_parts, method, cfg),
         response_func_name |-> IF method.server_streaming
                                THEN "make_stream_response" ELSE "make_response"],
     route |->
        IF cfg.generate_openapi
        THEN [routes |-> method.name]
        ELSE [path |-> method_details.path, method |-> method_details.method,
              handler |-> method.name, turbofish |-> service_type.generics]]

\* Generator::generate_func, once FunctionParts::new returned `func_parts`.
built_func(method, service_type, cfg, r, func_parts) ==
    IF ~func_parts.ok
    THEN [ok |-> FALSE, error |-> func_parts.error,
          body_messages |-> r.body_messages,
          query_messages |-> r.query_messages]
    ELSE [ok |-> TRUE,
          value |-> Some(make_func(method, r.value.value, func_parts.value,
                                   service_type, cfg)),
          body_messages |-> r.body_messages,
          query_messages |-> r.query_messages]

\* Generator::generate_func, once the binding resolved to `r`.
resolved_func(method, service_type, cfg, r) ==
    IF ~r.ok
    THEN [ok |-> FALSE, error |-> r.error,
          body_messages |-> r.body_messages,
          query_messages |-> r.query_messages]
    ELSE IF ~r.value.some
    THEN [ok |-> TRUE, value |-> None,
          body_messages |-> r.body_messages,
          query_messages |-> r.query_messages]
    ELSE built_func(method, service_type, cfg, r,
                    FunctionParts(method.name, r.value.value, method.input_type,
                                  method.client_streaming, req_name(cfg)))

\* Generator::generate_func: Err, Ok(None) for a method without a binding, or
\* Ok(Some((function, route))); the registry is written while the binding is
\* resolved, so an error of FunctionParts::new leaves it written.
generate_func(service_name, method, service_type, opts, existing, body, query, cfg) ==
    IF ~get_message(existing, method.input_type).some
    THEN [ok |-> FALSE, body_messages |-> body, query_messages |-> query,
          error |-> "Prost generated message not found: " \o method.input_type
                        \o " for service: " \o service_name
                        \o " method: " \o method.name]
    ELSE resolved_func(method, service_type, cfg,
                       calculate_messages(opts, service_name, method.proto_name,
                                          get_message(existing, method.input_type).value,
                                          existing, body, query, cfg))

\* HttpOptions::get_path: the path of the method's binding, if it has one.
get_path(opts, service_name, method_name) ==
    LET option == get_http_options(opts, service_name, method_name) IN
    IF option.some THEN Some(build_path(option.value)) ELSE None

\* Generator::generate_ws_func: the upgrade handler and its two routes.
generate_ws_func(method, service_type, path) ==
    [func |-> [name |-> method.name \o "_ws",
               callback |-> IF method.client_streaming /\ method.server_streaming
                            THEN "bidi"
                            ELSE IF method.client_streaming THEN "client"
                            ELSE "server"],
     proto_route |-> [path |-> path \o <<"/", "ws", "/", "proto">>,
                      handler |-> method.name \o "_ws",
                      turbofish |-> service_type.generics],
     json_route |-> [path |-> path \o <<"/", "ws", "/", "json">>,
                     handler |-> method.name \o "_ws",
                     turbofish |-> service_type.generics]]

\* Generator::generate_service, the loop over the methods from the i-th on:
\* stops at the first method that fails.  `acc` holds the loop's vectors and
\* flag, the registry, and the result of every generate_func so far; `r` is
\* the result of generate_func for the i-th method.
RECURSIVE generate_funcs(_, _, _, _, _, _, _)
RECURSIVE generated_func(_, _, _, _, _, _, _, _)
generated_func(service, i, service_type, opts, existing, cfg, acc, r) ==
    IF ~r.ok
    THEN [acc EXCEPT !.ok = FALSE, !.error = r.error,
                     !.body_messages = r.body_messages,
                     !.query_messages = r.query_messages,
                     !.results = Append(@, Err(r.error))]
    ELSE IF ~r.value.some
    THEN generate_funcs(service, i + 1, service_type, opts, existing, cfg,
             [acc EXCEPT !.body_messages = r.body_messages,
                         !.query_messages = r.query_messages,
                         !.results = Append(@, Ok(None))])
    ELSE LET method == service.methods[i]
             path == get_path(opts, service.name, method.proto_name)
             ws == cfg.generate_web_sockets
                   /\ (method.client_streaming \/ method.server_streaming)
                   /\ path.some
             ws_func == generate_ws_func(method, service_type, path.value)
         IN  generate_funcs(service, i + 1, service_type, opts, existing, cfg,
               [acc EXCEPT
                 !.body_messages = r.body_messages,
                 !.query_messages = r.query_messages,
                 !.results = Append(@, Ok(r.value)),
                 !.has_client_streaming = @ \/ method.client_streaming,
                 !.ws_handler_funcs = IF ws THEN Append(@, ws_func.func) ELSE @,
                 !.ws_proto_routes = IF ws THEN Append(@, ws_func.proto_route) ELSE @,
                 !.ws_json_routes = IF ws THEN Append(@, ws_func.json_route) ELSE @,
                 !.handler_funcs = Append(@, r.value.value.function),
                 !.routes = Append(@, r.value.value.route)])

generate_funcs(service, i, service_type, opts, existing, cfg, acc) ==
    IF i > Len(service.methods) THEN [acc EXCEPT !.ok = TRUE]
    ELSE generated_func(service, i, service_type, opts, existing, cfg, acc,
                        generate_func(service.name, service.methods[i], service_type,
                                      opts, existing, acc.body_messages,
                                      acc.query_messages, cfg))

\* The top-level structs of a buffer: those prost wrote, and those of a text
\* this generator appended; the wrapped generator writes modules only.
RECURSIVE structs_of(_)
structs_of(items) ==
    IF items = << >> THEN << >>
    ELSE LET item == Head(items) IN
         (IF "fields" \in DOMAIN item THEN <<item>>
          ELSE IF "body_structs" \in DOMAIN item
          THEN item.body_structs \o item.query_structs
          ELSE << >>) \o structs_of(Tail(items))

\* Generator::generate_router with both WebSocket routers given the same flag.
generate_router_one_flag(routes, ws_proto_routes, ws_json_routes, cfg) ==
    [router_type |-> IF cfg.generate_openapi THEN "OpenApiRouter" ELSE "Router",
     routes |-> routes,
     ws |-> IF ws_proto_routes = << >> THEN None
            ELSE Some([ws_proto |-> [routes |-> ws_proto_routes, with_state |-> TRUE],
                       ws_json |-> [routes |-> ws_json_routes, with_state |-> TRUE]])]

\* Generator::generate_router: the service's router; when there are WebSocket
\* routes, two more routers merged into it, whose state carries the encoding
\* flag next to the service's state.
generate_router(routes, ws_proto_routes, ws_json_routes, cfg) ==
    [router_type |-> IF cfg.generate_openapi THEN "OpenApiRouter" ELSE "Router",
     routes |-> routes,
     ws |-> IF ws_proto_routes = << >> THEN None
            ELSE Some([ws_proto |-> [routes |-> ws_proto_routes, with_state |-> TRUE],
                       ws_json |-> [routes |-> ws_json_routes, with_state |-> FALSE]])]

\* Generator::generate_service failing: nothing of the service is recorded.
failed_service(error, index, body, query, mods, results) ==
    [ok |-> FALSE, error |-> error, existing_messages |-> index,
     body_messages |-> body, query_messages |-> query, modules |-> mods,
     results |-> results]

\* Generator::generate_service, after the loop over the methods left `acc`:
\* the trait-object service with client streaming is refused, any other gets
\* its module pushed.
generated_service(service, index, mods, cfg, service_type, acc) ==
    IF ~acc.ok
    THEN failed_service(acc.error, index, acc.body_messages, acc.query_messages,
                        mods, acc.results)
    ELSE IF acc.has_client_streaming /\ ~state_type_of(cfg, service.name).some
    THEN failed_service(
             "Client streaming methods are not supported when the state type is a trait object: (Service: "
                 \o service.name \o ")",
             index, acc.body_messages, acc.query_messages, mods, acc.results)
    ELSE [ok |-> TRUE, existing_messages |-> index,
          body_messages |-> acc.body_messages,
          query_messages |-> acc.query_messages,
          results |-> acc.results,
          modules |-> Append(mods,
             [service |-> service.name,
              state_type |-> service_type.state_type_name,
              use_json_lines |-> acc.has_client_streaming,
              use_ws |-> acc.ws_proto_routes # << >>,
              use_openapi |-> cfg.generate_openapi,
              use_trait |-> service_type.use_trait,
              handler_funcs |-> acc.handler_funcs,
              ws_handler_funcs |-> acc.ws_handler_funcs,
              routes |-> acc.routes,
              ws_proto_routes |-> acc.ws_proto_routes,
              ws_json_routes |-> acc.ws_json_routes,
              router |-> generate_router(acc.routes, acc.ws_proto_routes,
                                         acc.ws_json_routes, cfg)])]

\* Generator::generate_service, once the index is read from the buffer: the
\* generic service is refused under OpenAPI, before the loop over the methods.
indexed_service(service, index, opts, body, query, mods, cfg, service_type) ==
    IF service_type.generics.some /\ cfg.generate_openapi
    THEN failed_service(
             "A generic service state type is not supported when generating OpenAPI documentation: (Service: "
                 \o service.name \o ")",
             index, body, query, mods, << >>)
    ELSE generated_service(service, index, mods, cfg, service_type,
             generate_funcs(service, 1, service_type, opts, index, cfg,
                 [ok |-> TRUE, error |-> "", results |-> << >>,
                  body_messages |-> body, query_messages |-> query,
                  handler_funcs |-> << >>, routes |-> << >>,
                  ws_handler_funcs |-> << >>, ws_proto_routes |-> << >>,
                  ws_json_routes |-> << >>,
                  has_client_streaming |-> FALSE]))

\* Generator::generate_service: the index is read from the buffer, then the
\* service is refused or its module is pushed.
generate_service(service, items, opts, existing, body, query, mods, cfg) ==
    indexed_service(service, parse_source(existing, structs_of(items)), opts,
                    body, query, mods, cfg,
                    ServiceType(service.name, state_type_of(cfg, service.name)))

\* Generator::generate_struct: the declaration of one synthesized struct.
generate_struct(message, body, cfg) ==
    [name |-> message.name,
     doc_comments |-> IF message.name \in DOMAIN cfg.struct_doc_comments
                      THEN cfg.struct_doc_comments[message.name]
                      ELSE message.doc_comments,
     derive |-> IF cfg.generate_openapi
                THEN IF body THEN "Deserialize, ToSchema"
                     ELSE "Deserialize, IntoParams"
                ELSE "Deserialize",
     fields |-> message.fields]

\* The orders in which a HashMap can hand out its keys.
Orders(messages) ==
    { order \in [1..Cardinality(DOMAIN messages) -> DOMAIN messages] :
        \A i, j \in DOMAIN order : i # j => order[i] # order[j] }

\* NewMessages::body_messages / query_messages: values().flatten(), the
\* buckets one after the other in the map's iteration order.
RECURSIVE values_flatten(_, _)
values_flatten(messages, order) ==
    IF order = << >> THEN << >>
    ELSE messages[Head(order)] \o values_flatten(messages, Tail(order))

\* Generator::write_code_to_buffer: one text appended to the buffer, made of
\* the body structs, the query structs and every module recorded so far.
write_code_to_buffer(items, body, query, mods, cfg, body_order, query_order) ==
    LET body_structs == [i \in DOMAIN values_flatten(body, body_order) |->
                            generate_struct(values_flatten(body, body_order)[i], TRUE, cfg)]
        query_structs == [i \in DOMAIN values_flatten(query, query_order) |->
                            generate_struct(values_flatten(query, query_order)[i], FALSE, cfg)]
    IN  Append(items, [by |-> "generator", body_structs |-> body_structs,
                       query_structs |-> query_structs, modules |-> mods])

\* The wrapped tonic generator, as the record of the callback it was given.
service_generator(items, callback, subject) ==
    Append(items, [by |-> "service_generator", callback |-> callback,
                   subject |-> subject])

----------------------------------------------------------------------------
(* The inputs of a generation run *)

PNotes == << "/", "notes" >>
PNoteId == << "/", "notes", "/", "{", "id", "}" >>
PPing == << "/", "ping" >>

\* The methods of the services, by name.
GenMethod(name) ==
    CASE name = "Get"     -> Method("get", "Get", "Item", "Item", FALSE, FALSE)
      [] name = "List"    -> Method("list", "List", "Item", "Item", FALSE, FALSE)
      [] name = "Plain"   -> Method("plain", "Plain", "Item", "Item", FALSE, FALSE)
      [] name = "Create"  -> Method("create", "Create", "Item", "Item", FALSE, FALSE)
      [] name = "Update"  -> Method("update", "Update", "Item", "Item", FALSE, FALSE)
      [] name = "Ping"    -> Method("ping", "Ping", "()", "()", FALSE, FALSE)
      [] name = "Clear"   -> Method("clear", "Clear", "Empty", "Empty", FALSE, FALSE)
      [] name = "Upload"  -> Method("upload", "Upload", "Item", "Item", TRUE, FALSE)
      [] name = "Feed"    -> Method("feed", "Feed", "Item", "Item", TRUE, FALSE)
      [] name = "Push"    -> Method("push", "Push", "Item", "Item", TRUE, FALSE)
      [] name = "Sync"    -> Method("sync", "Sync", "Item", "Item", TRUE, FALSE)
      [] name = "Far"     -> Method("far", "Far", "Thing", "Item", FALSE, FALSE)
      [] name = "BadPath" -> Method("bad_path", "BadPath", "Item", "Item", FALSE, FALSE)
      [] name = "Out"     -> Method("out", "Out", "Item", "Thing", FALSE, FALSE)
      [] name = "GetNote" -> Method("get_note", "GetNote", "Note", "Note", FALSE, FALSE)
      [] name = "Watch"   -> Method("watch", "Watch", "Note", "Note", FALSE, TRUE)

\* The bindings declared on them: Plain, Sync and Far declare none.
GenOption(name) ==
    CASE name = "Get"     -> HttpOption("GET", PId, None)
      [] name = "List"    -> HttpOption("GET", PItems, None)
      [] name = "Create"  -> HttpOption("POST", PItems, Some("*"))
      [] name = "Update"  -> HttpOption("PUT", PId, Some("*"))
      [] name = "Ping"    -> HttpOption("GET", PPing, None)
      [] name = "Clear"   -> HttpOption("POST", PPing, None)
      [] name = "Upload"  -> HttpOption("POST", PItems, Some("*"))
      [] name = "Feed"    -> HttpOption("GET", PItems, None)
      [] name = "Push"    -> HttpOption("PUT", PId, Some("*"))
      [] name = "BadPath" -> HttpOption("DELETE", PNope, None)
      [] name = "Out"     -> HttpOption("POST", PItems, Some("*"))
      [] name = "GetNote" -> HttpOption("GET", PNoteId, None)
      [] name = "Watch"   -> HttpOption("GET", PNotes, None)

Unbound == {"Plain", "Sync", "Far"}

\* The services of the descriptor set: name, package and method names.
ServiceMethods ==
    [Items   |-> <<"Get", "Plain", "List">>,
     Store   |-> <<"Create", "Ping", "Clear", "Update">>,
     Uploads |-> <<"Upload">>,
     Feeds   |-> <<"Feed">>,
     Pushes  |-> <<"Get", "Push">>,
     Syncs   |-> <<"Sync", "Get">>,
     Fars    |-> <<"Far", "Get">>,
     Bads    |-> <<"Update", "BadPath", "Get">>,
     Outs    |-> <<"Out", "Get">>,
     Notes   |-> <<"GetNote", "Watch">>]

Packages == {"a", "b"}

GenService(name) ==
    Service(name, IF name = "Notes" THEN "b" ELSE "a",
            [i \in DOMAIN ServiceMethods[name] |-> GenMethod(ServiceMethods[name][i])])

Services == { GenService(name) : name \in DOMAIN ServiceMethods }

\* What HttpOptions holds for them.
GenOptions ==
    [service \in DOMAIN ServiceMethods |->
        [method \in { ServiceMethods[service][i] : i \in DOMAIN ServiceMethods[service] }
                        \ Unbound |-> GenOption(method)]]

\* What prost has written to the buffer of each package before the services
\* of the package are generated.
ProstBuffer(package) ==
    IF package = "a"
    THEN << Struct("Item", "An item", << Field("id", u32, "The id"),
                                         Field("name", String, "") >>),
            Struct("Empty", "", << >>) >>
    ELSE << Struct("Note", "A note", << Field("id", u32, ""),
                                        Field("text", String, "") >>) >>

\* The services given a state type: all of them, or one only.
RECURSIVE with_state_types(_, _, _)
with_state_types(cfg, names, kind) ==
    IF names = {} \/ kind = "None" THEN cfg
    ELSE LET name == CHOOSE n \in names : TRUE
             next == IF kind = "Custom"
                     THEN custom_state_type(cfg, name, "AppState").value
                     ELSE generic_state_type(cfg, name).value
         IN  with_state_types(next, names \ {name}, kind)

StateTypes ==
    { with_state_types(DefaultConfig, names, kind) :
        names \in {DOMAIN ServiceMethods, {"Store"}},
        kind \in {"None", "Custom", "Generic"} }

GenConfigs ==
    { generate_web_sockets(generate_openapi(cfg, openapi), web_sockets) :
        cfg \in StateTypes, openapi \in BOOLEAN, web_sockets \in BOOLEAN }

----------------------------------------------------------------------------
(* A generation run: the callbacks of the ServiceGenerator facade *)

InitGen ==
    /\ config \in GenConfigs
    /\ options = GenOptions
    /\ existing_messages = << >>
    /\ body_messages = << >>
    /\ query_messages = << >>
    /\ modules = << >>
    /\ buf = [package \in Packages |-> ProstBuffer(package)]
    /\ rerun = [package \in Packages |-> ProstBuffer(package)]
    /\ phase = "running"
    /\ calls = 0
    /\ last = [op |-> "new"]
    /\ Idle

Called(items, callback) ==
    \E i \in DOMAIN items : /\ "callback" \in DOMAIN items[i]
                            /\ items[i].callback = callback

Generated(service_name) ==
    \E package \in Packages : \E i \in DOMAIN buf[package] :
        /\ "callback" \in DOMAIN buf[package][i]
        /\ buf[package][i].callback = "generate"
        /\ buf[package][i].subject = service_name

\* ServiceGenerator::generate with the failure of the pipeline ignored.
generate_regardless(items, service, result) ==
    service_generator(items, "generate", service.name)

\* ServiceGenerator::generate, after generate_service: a panic when it failed,
\* the wrapped generator otherwise.
generate(items, service, result) ==
    IF result.ok THEN service_generator(items, "generate", service.name)
    ELSE items

\* ServiceGenerator::generate, given the result `r` of generate_service.
GenerateResult(service, r) ==
    /\ existing_messages' = r.existing_messages
    /\ body_messages' = r.body_messages
    /\ query_messages' = r.query_messages
    /\ modules' = r.modules
    /\ buf' = [buf EXCEPT ![service.package] = generate(@, service, r)]
    /\ rerun' = [rerun EXCEPT ![service.package] = generate(@, service, r)]
    /\ phase' = IF r.ok THEN "running" ELSE "panicked"
    /\ last' = [op |-> "generate", service |-> service,
                result |-> IF r.ok THEN Ok(r.results) ELSE Err(r.error),
                results |-> r.results]

\* ServiceGenerator::generate: the service's pipeline, a panic when it fails,
\* and the wrapped generator last.
Generate(service) ==
    /\ phase = "running"
    /\ calls < MaxCalls
    /\ ~Generated(service.name)
    /\ \A package \in Packages : ~Called(buf[package], "finalize_package")
    /\ GenerateResult(service,
                      generate_service(service, buf[service.package], options,
                                       existing_messages, body_messages,
                                       query_messages, modules, config))
    /\ calls' = calls + 1
    /\ UNCHANGED <<config, options>>
    /\ UNCHANGED aside

\* ServiceGenerator::finalize with the structs and modules written after the
\* wrapped generator's turn.
finalize_flushing(items, body, query, mods, cfg, body_order, query_order) ==
    write_code_to_buffer(service_generator(items, "finalize", ""),
                         body, query, mods, cfg, body_order, query_order)

\* ServiceGenerator::finalize: the wrapped generator only.
finalize(items, body, query, mods, cfg, body_order, query_order) ==
    service_generator(items, "finalize", "")

\* ServiceGenerator::finalize_package as a mere delegation.
finalize_package_only(items, package, body, query, mods, cfg, body_order, query_order) ==
    service_generator(items, "finalize_package", package)

\* ServiceGenerator::finalize_package: the wrapped generator, then the structs
\* and the modules.
finalize_package(items, package, body, query, mods, cfg, body_order, query_order) ==
    write_code_to_buffer(service_generator(items, "finalize_package", package),
                         body, query, mods, cfg, body_order, query_order)

\* ServiceGenerator::finalize, called when the services of a file are done;
\* `rerun` is the same callback of a second run of the build.
Finalize(package) ==
    /\ phase = "running"
    /\ buf[package] # << >>
    /\ "callback" \in DOMAIN buf[package][Len(buf[package])]
    /\ buf[package][Len(buf[package])].callback = "generate"
    /\ \A p \in Packages : ~Called(buf[p], "finalize_package")
    /\ \E body_order \in Orders(body_messages), query_order \in Orders(query_messages) :
          buf' = [buf EXCEPT ![package] =
                    finalize(@, body_messages, query_messages, modules, config,
                             body_order, query_order)]
    /\ \E body_order \in Orders(body_messages), query_order \in Orders(query_messages) :
          rerun' = [rerun EXCEPT ![package] =
                    finalize(@, body_messages, query_messages, modules, config,
                             body_order, query_order)]
    /\ last' = [op |-> "finalize", package |-> package]
    /\ UNCHANGED <<config, options, existing_messages, body_messages,
                   query_messages, modules, phase, calls>>
    /\ UNCHANGED aside

\* ServiceGenerator::finalize_package, called once per package when every file
\* is done.
FinalizePackage(package) ==
    /\ phase = "running"
    /\ ~Called(buf[package], "finalize_package")
    /\ \A p \in Packages :
          /\ buf[p] # << >>
          /\ "callback" \in DOMAIN buf[p][Len(buf[p])]
                => buf[p][Len(buf[p])].callback # "generate"
    /\ \E body_order \in Orders(body_messages), query_order \in Orders(query_messages) :
          buf' = [buf EXCEPT ![package] =
                    finalize_package(@, package, body_messages, query_messages,
                                     modules, config, body_order, query_order)]
    /\ \E body_order \in Orders(body_messages), query_order \in Orders(query_messages) :
          rerun' = [rerun EXCEPT ![package] =
                    finalize_package(@, package, body_messages, query_messages,
                                     modules, config, body_order, query_order)]
    /\ last' = [op |-> "finalize_package", package |-> package]
    /\ UNCHANGED <<config, options, existing_messages, body_messages,
                   query_messages, modules, phase, calls>>
    /\ UNCHANGED aside

NextGen ==
    \/ \E service \in Services : Generate(service)
    \/ \E package \in Packages : Finalize(package)
    \/ \E package \in Packages : FinalizePackage(package)

SpecGen == InitGen /\ [][NextGen]_vars

----------------------------------------------------------------------------
(* Reading the bindings from the descriptor set *)

HTTP_EXTENSION_TAG == 72295728

\* str::to_uppercase on the name of a verb field.
to_uppercase(name) ==
    CASE name = "get" -> "GET"
      [] name = "post" -> "POST"
      [] name = "put" -> "PUT"
      [] name = "delete" -> "DELETE"
      [] name = "patch" -> "PATCH"
      [] OTHER -> name

\* DynamicMessage::fields of an HttpRule: the fields that are set, by field
\* number; the pattern is a oneof, the body a string that is set when it is
\* not empty.
rule_fields(http_rule) ==
    (IF http_rule.pattern.some
     THEN << <<http_rule.pattern.value.kind, http_rule.pattern.value.path>> >>
     ELSE << >>)
    \o (IF http_rule.body # "" THEN << <<"body", http_rule.body>> >> ELSE << >>)

\* HttpOptions::extract_options, the loop over the fields of the rule.
RECURSIVE read_rule(_, _)
read_rule(fields, acc) ==
    IF fields = << >> THEN acc
    ELSE LET name == Head(fields)[1]
             value == Head(fields)[2]
         IN  IF name \in {"get", "post", "put", "delete", "patch"}
             THEN read_rule(Tail(fields), [acc EXCEPT !.method = to_uppercase(name),
                                                      !.pattern = value])
             ELSE IF name = "body"
             THEN read_rule(Tail(fields), [acc EXCEPT !.body = Some(value)])
             ELSE read_rule(Tail(fields), acc)

\* HttpOptions::extract_options, the rule once read.
extracted(rule, rest_of_extensions) ==
    IF rule.method # "" THEN Some(rule) ELSE rest_of_extensions

\* HttpOptions::extract_options: the first extension with the HTTP tag that
\* has a recognised verb.
RECURSIVE extract_options(_)
extract_options(extensions) ==
    IF extensions = << >> THEN None
    ELSE IF Head(extensions).number = HTTP_EXTENSION_TAG
    THEN extracted(read_rule(rule_fields(Head(extensions).value),
                             HttpOption("", << >>, None)),
                   extract_options(Tail(extensions)))
    ELSE extract_options(Tail(extensions))

\* HttpOptions::parse_http_options, the loop over the methods of a service.
RECURSIVE method_cache_of(_, _)
method_cache_of(methods, method_cache) ==
    IF methods = << >> THEN method_cache
    ELSE method_cache_of(Tail(methods),
             IF extract_options(Head(methods).options).some
             THEN [k \in DOMAIN method_cache \cup {Head(methods).name} |->
                      IF k = Head(methods).name
                      THEN extract_options(Head(methods).options).value
                      ELSE method_cache[k]]
             ELSE method_cache)

\* HttpOptions::parse_http_options, the loop over the services of a file: the
\* cache of a service is inserted under the service's name.
RECURSIVE parse_services(_, _)
parse_services(services, opts) ==
    IF services = << >> THEN opts
    ELSE parse_services(Tail(services),
             [k \in DOMAIN opts \cup {Head(services).name} |->
                 IF k = Head(services).name
                 THEN method_cache_of(Head(services).method, << >>)
                 ELSE opts[k]])

\* HttpOptions::parse_http_options: one pass over the files of the set.
RECURSIVE parse_http_options(_, _)
parse_http_options(opts, files) ==
    IF files = << >> THEN opts
    ELSE parse_http_options(parse_services(Head(files).service, opts), Tail(files))

\* Descriptors: an extension of a method's options, a method, a service, a file.
HttpRule(kind, path, body) ==
    [number |-> HTTP_EXTENSION_TAG,
     value |-> [pattern |-> IF kind = "" THEN None
                            ELSE Some([kind |-> kind, path |-> path]),
                body |-> body]]

OtherExtension == [number |-> 1001, value |-> [pattern |-> None, body |-> ""]]

MethodDescriptor(name, extensions) == [name |-> name, options |-> extensions]

ServiceDescriptor(name, methods) == [name |-> name, method |-> methods]

FileDescriptor(package, services) == [package |-> package, service |-> services]

\* The files a descriptor set is made of: two of them declare a service of
\* the same name, in different packages.
FilePool ==
    { FileDescriptor("a", << ServiceDescriptor("Items", <<
          MethodDescriptor("Get", << HttpRule("get", PId, "") >>),
          MethodDescriptor("Create", << HttpRule("post", PItems, "*") >>),
          MethodDescriptor("Plain", << >>) >>) >>),
      FileDescriptor("b", << ServiceDescriptor("Items", <<
          MethodDescriptor("List", << HttpRule("get", PItems, "") >>) >>) >>),
      FileDescriptor("b", << ServiceDescriptor("Notes", <<
          MethodDescriptor("GetNote", << HttpRule("get", PNoteId, "") >>),
          MethodDescriptor("Rename", << HttpRule("patch", PNoteId, "text") >>),
          MethodDescriptor("Hook", << HttpRule("custom", PNotes, "*") >>),
          MethodDescriptor("Tagged", << OtherExtension >>) >>) >>),
      FileDescriptor("c", << ServiceDescriptor("Admin", <<
          MethodDescriptor("Drop", << OtherExtension, HttpRule("delete", PItems, "") >>),
          MethodDescriptor("Put", << HttpRule("put", PId, "*") >>),
          MethodDescriptor("Unset", << HttpRule("", << >>, "*") >>) >>),
                            ServiceDescriptor("Health", <<
          MethodDescriptor("Check", << >>) >>) >>),
      FileDescriptor("d", << >>) }

\* Files in a descriptor set.
MaxFiles == 2

DescriptorSets ==
    UNION { [1..n -> FilePool] : n \in 1..MaxFiles }

InitOptions ==
    /\ config = DefaultConfig
    /\ options = << >>
    /\ existing_messages = << >>
    /\ body_messages = << >>
    /\ query_messages = << >>
    /\ modules = << >>
    /\ buf = << >>
    /\ rerun = << >>
    /\ phase = "running"
    /\ calls = 0
    /\ last = [op |-> "new"]
    /\ fds \in DescriptorSets
    /\ msg = << >>
    /\ helper = << >>
    /\ socket = << >>
    /\ ty = << >>

\* HttpOptions::parse_http_options, once per build.
ParseHttpOptions ==
    /\ last.op = "new"
    /\ options' = parse_http_options(options, fds)
    /\ last' = [op |-> "parse_http_options"]
    /\ UNCHANGED <<config, existing_messages, body_messages, query_messages,
                   modules, buf, rerun, phase, calls, fds, msg, helper, socket, ty>>

\* HttpOptions::get_http_options, after the pass.
GetHttpOptions(service_name, method_name) ==
    /\ last.op # "new"
    /\ last' = [op |-> "get_http_options", service_name |-> service_name,
                method_name |-> method_name,
                result |-> get_http_options(options, service_name, method_name)]
    /\ UNCHANGED <<config, options, existing_messages, body_messages, query_messages,
                   modules, buf, rerun, phase, calls, fds, msg, helper, socket, ty>>

\* The names looked up: those the pool declares, and one it does not.
AskedServices == {"Items", "Notes", "Admin", "Health", "Nope"}

AskedMethods ==
    {"Get", "Create", "Plain", "List", "GetNote", "Rename", "Hook", "Tagged",
     "Drop", "Put", "Unset", "Check", "Nope"}

NextOptions ==
    \/ ParseHttpOptions
    \/ \E service_name \in AskedServices, method_name \in AskedMethods :
          GetHttpOptions(service_name, method_name)

SpecOptions == InitOptions /\ [][NextOptions]_vars

----------------------------------------------------------------------------
(* The streaming request: one helper shared as body and as decoder *)

\* tonic::Status::internal of the error's text.
StatusInternal(e) == [code |-> "Internal", message |-> e]

\* FakeGrpcFrameStreamingHelper::poll_frame polling the stream whatever is
\* buffered.
poll_frame_unguarded(inner, ready) ==
    IF ~ready THEN [inner |-> inner, result |-> "Pending"]
    ELSE IF inner.lines # << >>
    THEN [inner |-> [inner EXCEPT !.next = Some(Head(inner.lines)),
                                  !.lines = Tail(inner.lines)],
          result |-> "Frame"]
    ELSE [inner |-> inner, result |-> "End"]

\* FakeGrpcFrameStreamingHelper::poll_frame: an empty frame when an item is
\* buffered; otherwise the stream is polled, and `ready` tells whether it has
\* its next item, or its end, at hand.
poll_frame(inner, ready) ==
    IF inner.next.some THEN [inner |-> inner, result |-> "Frame"]
    ELSE IF ~ready THEN [inner |-> inner, result |-> "Pending"]
    ELSE IF inner.lines # << >>
    THEN [inner |-> [inner EXCEPT !.next = Some(Head(inner.lines)),
                                  !.lines = Tail(inner.lines)],
          result |-> "Frame"]
    ELSE [inner |-> inner, result |-> "End"]

\* Option::transpose and the map_err of decode.
transpose(next) ==
    IF ~next.some THEN Ok(None)
    ELSE IF next.value.ok THEN Ok(Some(next.value.value))
    ELSE Err(StatusInternal(next.value.error))

\* FakeGrpcFrameStreamingHelper::decode: takes the buffered item.
decode(inner) ==
    [inner |-> [inner EXCEPT !.next = None], result |-> transpose(inner.next)]

\* Items of the stream of lines.
Lines == {Ok(1), Ok(2), Err("bad line")}

\* Items in a stream.
MaxItems == 3

Streams == UNION { [1..n -> Lines] : n \in 0..MaxItems }

\* make_stream_request: the helper over the lines, nothing buffered.  With
\* the helper's two fields go the items the stream had, the results decode
\* gave so far, and whether poll_frame reported the end.
InitStream ==
    /\ config = DefaultConfig
    /\ options = << >>
    /\ existing_messages = << >>
    /\ body_messages = << >>
    /\ query_messages = << >>
    /\ modules = << >>
    /\ buf = << >>
    /\ rerun = << >>
    /\ phase = "running"
    /\ calls = 0
    /\ last = [op |-> "new"]
    /\ fds = << >>
    /\ msg = << >>
    /\ \E stream \in Streams :
          helper = [lines |-> stream, next |-> None,
                    source |-> stream, received |-> << >>, ended |-> FALSE]
    /\ socket = << >>
    /\ ty = << >>

\* Body::poll_frame, called by whoever drives the request.
PollFrame(ready) ==
    /\ LET r == poll_frame(helper, ready) IN
       /\ helper' = [helper EXCEPT !.lines = r.inner.lines, !.next = r.inner.next,
                                   !.ended = @ \/ r.result = "End"]
       /\ last' = [op |-> "poll_frame", result |-> r.result, buffered |-> helper.next]
    /\ UNCHANGED <<config, options, existing_messages, body_messages, query_messages,
                   modules, buf, rerun, phase, calls, fds, msg, socket, ty>>

\* Decoder::decode, called by whoever drives the request.
Decode ==
    /\ LET r == decode(helper) IN
       /\ helper' = [helper EXCEPT !.next = r.inner.next,
                                   !.received = IF r.result = Ok(None) THEN @
                                                ELSE Append(@, r.result)]
       /\ last' = [op |-> "decode", result |-> r.result, buffered |-> helper.next]
    /\ UNCHANGED <<config, options, existing_messages, body_messages, query_messages,
                   modules, buf, rerun, phase, calls, fds, msg, socket, ty>>

NextStream ==
    \/ \E ready \in BOOLEAN : PollFrame(ready)
    \/ Decode

SpecStream == InitStream /\ [][NextStream]_vars

\* The request is driven until its end: the consumer keeps polling, the
\* stream of lines gets ready, and a frame is followed by a decode.
FairStream ==
    /\ SpecStream
    /\ WF_vars(PollFrame(TRUE))
    /\ WF_vars(Decode /\ helper.next.some)

----------------------------------------------------------------------------
(* Replacing the string and bytes types of the generated structs *)

\* A type path: leading `::`, the segments' idents, and the generic arguments
\* of its last segment.
TypePath(leading_colon, segments, args) ==
    [leading_colon |-> leading_colon, segments |-> segments, args |-> args]

\* TypeReplacer::segments_match over the zipped idents.
segments_match(target, pattern) ==
    \A i \in DOMAIN target \cap DOMAIN pattern : target[i] = pattern[i]

\* TypeReplacer::path_matches: exact when the pattern has a leading colon,
\* else the pattern is matched against the tail of the target.
path_matches(target, pattern) ==
    IF pattern.leading_colon
    THEN /\ target.leading_colon
         /\ Len(target.segments) = Len(pattern.segments)
         /\ segments_match(target.segments, pattern.segments)
    ELSE IF Len(target.segments) < Len(pattern.segments) THEN FALSE
    ELSE segments_match(SubSeq(target.segments,
                               Len(target.segments) - Len(pattern.segments) + 1,
                               Len(target.segments)),
                        pattern.segments)

is_string_path(path) ==
    path_matches(path, TypePath(FALSE, <<"alloc", "string", "String">>, << >>))

is_prost_bytes_path(path) ==
    path_matches(path, TypePath(FALSE, <<"bytes", "Bytes">>, << >>))

is_vec_path(path) ==
    path_matches(path, TypePath(FALSE, <<"alloc", "vec", "Vec">>, << >>))

\* syn::Path::is_ident
is_ident(path, ident) ==
    /\ ~path.leading_colon
    /\ path.segments = <<ident>>
    /\ path.args = << >>

\* TypeReplacer::is_vec_u8
is_vec_u8(type_path) ==
    /\ is_vec_path(type_path)
    /\ Len(type_path.args) = 1
    /\ is_ident(type_path.args[1], "u8")

\* TypeReplacer::visit_type_mut looking at the type itself only.
visit_type_mut_shallow(replacer, type) ==
    IF replacer.string_replacement.some /\ is_string_path(type)
    THEN replacer.string_replacement.value
    ELSE IF replacer.bytes_replacement.some
            /\ (is_prost_bytes_path(type) \/ is_vec_u8(type))
    THEN replacer.bytes_replacement.value
    ELSE type

\* TypeReplacer::visit_type_mut, the check of the type once its generic
\* arguments are visited.
replaced_type(replacer, type) ==
    IF replacer.string_replacement.some /\ is_string_path(type)
    THEN replacer.string_replacement.value
    ELSE IF replacer.bytes_replacement.some
            /\ (is_prost_bytes_path(type) \/ is_vec_u8(type))
    THEN replacer.bytes_replacement.value
    ELSE type

\* TypeReplacer::visit_type_mut: the generic arguments first, then the type.
RECURSIVE visit_type_mut(_, _)
visit_type_mut(replacer, type) ==
    replaced_type(replacer,
        [type EXCEPT !.args = [i \in DOMAIN type.args |->
                                  visit_type_mut(replacer, type.args[i])]])

\* Types of the structs prost writes, and others.
ProstString == TypePath(TRUE, <<"prost", "alloc", "string", "String">>, << >>)
StdString == TypePath(FALSE, <<"String">>, << >>)
ProstBytes == TypePath(TRUE, <<"prost", "bytes", "Bytes">>, << >>)
U8 == TypePath(FALSE, <<"u8">>, << >>)
I32 == TypePath(FALSE, <<"i32">>, << >>)
ProstVec(type) == TypePath(TRUE, <<"prost", "alloc", "vec", "Vec">>, <<type>>)
CoreOption(type) == TypePath(TRUE, <<"core", "option", "Option">>, <<type>>)
StdHashMap(key, value) ==
    TypePath(TRUE, <<"std", "collections", "HashMap">>, <<key, value>>)
SharedStr == TypePath(FALSE, <<"flexstr", "SharedStr">>, << >>)
BytesBytes == TypePath(FALSE, <<"bytes", "Bytes">>, << >>)

Scalars == {ProstString, StdString, ProstBytes, U8, I32}

\* Depth of generic nesting.
MaxDepth == 2

RECURSIVE TypesTo(_)
TypesTo(depth) ==
    IF depth = 0 THEN Scalars
    ELSE Scalars
         \cup { ProstVec(type) : type \in TypesTo(depth - 1) }
         \cup { CoreOption(type) : type \in TypesTo(depth - 1) }
         \cup { StdHashMap(key, value) : key \in Scalars, value \in TypesTo(depth - 1) }

Replacers ==
    [string_replacement : {None, Some(SharedStr)},
     bytes_replacement : {None, Some(BytesBytes)}]

\* TypeReplacer::new, and a type to visit.
InitTypes ==
    /\ config = DefaultConfig
    /\ options = << >>
    /\ existing_messages = << >>
    /\ body_messages = << >>
    /\ query_messages = << >>
    /\ modules = << >>
    /\ buf = << >>
    /\ rerun = << >>
    /\ phase = "running"
    /\ calls = 0
    /\ last = [op |-> "new"]
    /\ fds = << >>
    /\ msg = << >>
    /\ helper = << >>
    /\ socket = << >>
    /\ \E replacer \in Replacers, type \in TypesTo(MaxDepth) :
          ty = [replacer |-> replacer, source |-> type, type |-> type]

\* VisitMut::visit_type_mut on the type.
VisitTypeMut ==
    /\ last.op = "new"
    /\ ty' = [ty EXCEPT !.type = visit_type_mut(ty.replacer, ty.type)]
    /\ last' = [op |-> "visit_type_mut"]
    /\ UNCHANGED <<config, options, existing_messages, body_messages, query_messages,
                   modules, buf, rerun, phase, calls, fds, msg, helper, socket>>

NextTypes == VisitTypeMut

SpecTypes == InitTypes /\ [][NextTypes]_vars

----------------------------------------------------------------------------
(* A Message under its own operations *)

\* Fields a message is given; two of them have the same name.
SomeFields ==
    {Field("id", u32, << >>), Field("name", String, << >>), Field("id", String, << >>)}

AskedNames == {"id", "name", "page"}

\* Fields ever added to a message.
MaxFields == 3

\* Message::new.  With the message goes the number of fields taken out of it
\* so far.
InitMessage ==
    /\ config = DefaultConfig
    /\ options = << >>
    /\ existing_messages = << >>
    /\ body_messages = << >>
    /\ query_messages = << >>
    /\ modules = << >>
    /\ buf = << >>
    /\ rerun = << >>
    /\ phase = "running"
    /\ calls = 0
    /\ last = [op |-> "new"]
    /\ fds = << >>
    /\ msg = [message |-> Message("Item", << >>), removed |-> 0]
    /\ helper = << >>
    /\ socket = << >>
    /\ ty = << >>

\* Message::add_field
AddField(field) ==
    /\ msg.message.field_count < MaxFields
    /\ msg' = [msg EXCEPT !.message = add_field(@, field)]
    /\ last' = [op |-> "add_field", before |-> msg.message]
    /\ UNCHANGED <<config, options, existing_messages, body_messages, query_messages,
                   modules, buf, rerun, phase, calls, fds, helper, socket, ty>>

\* Message::remove_field
RemoveField(name) ==
    /\ LET r == remove_field(msg.message, name) IN
       /\ msg' = [message |-> r.message,
                  removed |-> msg.removed + (IF r.field.some THEN 1 ELSE 0)]
       /\ last' = [op |-> "remove_field", before |-> msg.message, name |-> name,
                   result |-> r.field]
    /\ UNCHANGED <<config, options, existing_messages, body_messages, query_messages,
                   modules, buf, rerun, phase, calls, fds, helper, socket, ty>>

\* Message::remove_all_fields
RemoveAllFields ==
    /\ LET r == remove_all_fields(msg.message) IN
       /\ msg' = [message |-> r.message, removed |-> msg.removed + Len(r.fields)]
       /\ last' = [op |-> "remove_all_fields", before |-> msg.message,
                   result |-> r.fields]
    /\ UNCHANGED <<config, options, existing_messages, body_messages, query_messages,
                   modules, buf, rerun, phase, calls, fds, helper, socket, ty>>

NextMessage ==
    \/ \E field \in SomeFields : AddField(field)
    \/ \E name \in AskedNames : RemoveField(name)
    \/ RemoveAllFields

SpecMessage == InitMessage /\ [][NextMessage]_vars

----------------------------------------------------------------------------
(* A server-streaming response written to a WebSocket *)

\* tonic_status_to_ws_close_frame: the close code of the status code, and the
\* status message as the reason.
tonic_status_to_ws_close_frame(status) ==
    [kind |-> "Close",
     code |-> CASE status.code = "Ok" -> "NORMAL"
                [] status.code = "Cancelled" -> "AWAY"
                [] status.code = "InvalidArgument" -> "INVALID"
                [] status.code \in {"PermissionDenied", "Unauthenticated"} -> "POLICY"
                [] status.code = "ResourceExhausted" -> "SIZE"
                [] status.code = "Unimplemented" -> "UNSUPPORTED"
                [] status.code \in {"DeadlineExceeded", "Unavailable"} -> "AGAIN"
                [] OTHER -> "ERROR",
     reason |-> status.message]

\* send_ws_msg: a binary frame of the encoded message, or a text frame of its
\* JSON.
ws_msg_frame(message, protobuf) ==
    [kind |-> IF protobuf THEN "Binary" ELSE "Text", payload |-> message]

\* send_ws_error: a close frame with the code ERROR and the error's text.
ws_error_frame(error) == [kind |-> "Close", code |-> "ERROR", reason |-> error]

\* SinkExt::send: the frame handed to the sink by one of the functions, and
\* whether the sink took it.
send(sent, frame, by, accepted) ==
    Append(sent, [frame |-> frame, by |-> by, ok |-> accepted])

\* The statuses of a failed call, or of a failed item.
Statuses == { [code |-> "NotFound", message |-> "no such item"],
              [code |-> "Unavailable", message |-> "try again"] }

\* Items of a response stream.
StreamItems == {Ok("item")} \cup { Err(status) : status \in Statuses }

Responses ==
    { Err(status) : status \in Statuses }
        \cup { Ok(stream) : stream \in UNION { [1..n -> StreamItems] : n \in 0..MaxItems } }

\* process_ws_stream_response is called with the response of the call, the
\* sink of the socket and the encoding flag.
InitSocket ==
    /\ config = DefaultConfig
    /\ options = << >>
    /\ existing_messages = << >>
    /\ body_messages = << >>
    /\ query_messages = << >>
    /\ modules = << >>
    /\ buf = << >>
    /\ rerun = << >>
    /\ phase = "running"
    /\ calls = 0
    /\ last = [op |-> "new"]
    /\ fds = << >>
    /\ msg = << >>
    /\ helper = << >>
    /\ \E response \in Responses, protobuf \in BOOLEAN :
          socket = [response |-> response, protobuf |-> protobuf,
                    stream |-> << >>, sent |-> << >>, at |-> "match"]
    /\ ty = << >>

\* handle_ws_stream_response, `match response`: the stream of a successful
\* call is taken; the status of a failed call is sent as a close frame.
MatchResponse(accepted) ==
    /\ socket.at = "match"
    /\ socket' =
          IF socket.response.ok
          THEN [socket EXCEPT !.stream = socket.response.value, !.at = "next"]
          ELSE [socket EXCEPT
                   !.sent = send(@, tonic_status_to_ws_close_frame(socket.response.error),
                                 "send_ws_close_frame", accepted),
                   !.at = IF accepted THEN "done" ELSE "send_ws_error"]
    /\ last' = [op |-> "match"]
    /\ UNCHANGED <<config, options, existing_messages, body_messages, query_messages,
                   modules, buf, rerun, phase, calls, fds, msg, helper, ty>>

\* handle_ws_stream_response, one turn of `while let Some(msg) = stream.next()`:
\* a message is sent as a frame, a status as a close frame, and a send the
\* sink refuses ends the loop with the error.
StreamNext(accepted) ==
    /\ socket.at = "next"
    /\ socket' =
          IF socket.stream = << >> THEN [socket EXCEPT !.at = "done"]
          ELSE [socket EXCEPT
                   !.stream = Tail(@),
                   !.sent = IF Head(socket.stream).ok
                            THEN send(@, ws_msg_frame(Head(socket.stream).value,
                                                      socket.protobuf),
                                      "send_ws_msg", accepted)
                            ELSE send(@, tonic_status_to_ws_close_frame(
                                            Head(socket.stream).error),
                                      "send_ws_close_frame", accepted),
                   !.at = IF accepted THEN "next" ELSE "send_ws_error"]
    /\ last' = [op |-> "next"]
    /\ UNCHANGED <<config, options, existing_messages, body_messages, query_messages,
                   modules, buf, rerun, phase, calls, fds, msg, helper, ty>>

\* process_ws_stream_response, the error of handle_ws_stream_response:
\* send_ws_error sends a close frame and logs when that fails.
SendWsError(accepted) ==
    /\ socket.at = "send_ws_error"
    /\ socket' = [socket EXCEPT
                     !.sent = send(@, ws_error_frame("send failed"), "send_ws_error",
                                   accepted),
                     !.at = "done"]
    /\ last' = [op |-> "send_ws_error"]
    /\ UNCHANGED <<config, options, existing_messages, body_messages, query_messages,
                   modules, buf, rerun, phase, calls, fds, msg, helper, ty>>

NextSocket ==
    \E accepted \in BOOLEAN :
        \/ MatchResponse(accepted)
        \/ StreamNext(accepted)
        \/ SendWsError(accepted)

SpecSocket == InitSocket /\ [][NextSocket]_vars

----------------------------------------------------------------------------
(* Properties of binding resolution *)

\* The last operation resolved a method, and what it was given.
Resolving == last.op = "calculate_messages"
Binding == get_http_options(options, last.service_name, last.method_name)
InputMessage == existing_messages[last.input_type]

\* The last operation returned the details of a method.
Resolved == Resolving /\ last.result.ok /\ last.result.value.some
Details == last.result.value.value

Range(seq) == { seq[i] : i \in 1..Len(seq) }
NoRepeat(seq) == \A i, j \in 1..Len(seq) : seq[i] = seq[j] => i = j

\* What decides the equality of two fields, and a list of fields as a set.
FieldKey(field) == <<field.name, field.type_>>
KeySet(fields) == { FieldKey(fields[i]) : i \in 1..Len(fields) }

\* The names between braces of the template's {name} segments, in order.
PlaceholderAt(pattern, i) ==
    /\ pattern[i] = "{"
    /\ i + 2 <= Len(pattern)
    /\ pattern[i + 2] = "}"
    /\ pattern[i - 1] = "/"
    /\ (i + 2 = Len(pattern) \/ pattern[i + 3] = "/")
PlaceholderNames(pattern) ==
    LET opens == SelectSeq([i \in 1..Len(pattern) |-> i],
                           LAMBDA i : i > 1 /\ PlaceholderAt(pattern, i))
    IN  [k \in 1..Len(opens) |-> pattern[opens[k] + 1]]

\* The names a method's extractors bind, in the order path, body, query; a
\* VerbatimRequest contributes none.
BoundNames(details) ==
    idents(details.path_fields)
        \o (IF details.body.some THEN details.body.value.fields ELSE << >>)
        \o (IF details.query_str.some THEN details.query_str.value.fields ELSE << >>)

IsVerbatim(part) == part.some /\ part.value.handling = VerbatimRequest
HasVerbatim(details) == IsVerbatim(details.body) \/ IsVerbatim(details.query_str)

\* The fields of a message without those of the given names, in order.
Without(fields, names) == SelectSeq(fields, LAMBDA f : f.name \notin names)

\* The bucket of `origin` holds a message called `name` with exactly `fields`.
Holds(messages, origin, name, fields) ==
    /\ origin \in DOMAIN messages
    /\ \E i \in 1..Len(messages[origin]) :
          /\ messages[origin][i].name = name
          /\ Len(messages[origin][i].fields) = Len(fields)
          /\ KeySet(messages[origin][i].fields) = KeySet(fields)

\* C1, as stated: in every resolved binding the path-bound names, the names
\* of an ExtractFields or single-field body and the names of an ExtractFields
\* query list every field of the input message once and no other, the
\* path-bound ones in the order of the template's placeholders.
C1_Original ==
    Resolved =>
        /\ NoRepeat(BoundNames(Details))
        /\ Range(BoundNames(Details)) = Range(idents(InputMessage.fields))
        /\ idents(Details.path_fields) = PlaceholderNames(Binding.value.pattern)

\* C1, amended: the partition is complete when neither body nor query is a
\* VerbatimRequest; a VerbatimRequest body or query is the whole input
\* message, and then no name is bound by any extractor beside it.  In both
\* cases no name is bound twice and the path-bound fields follow the order of
\* the template's placeholders.
C1_Partition ==
    Resolved =>
        /\ NoRepeat(BoundNames(Details))
        /\ idents(Details.path_fields) = PlaceholderNames(Binding.value.pattern)
        /\ IF HasVerbatim(Details)
           THEN /\ BoundNames(Details) = << >>
                /\ IsVerbatim(Details.body) => Details.body.value.ident = InputMessage.name
                /\ IsVerbatim(Details.query_str) =>
                       Details.query_str.value.ident = InputMessage.name
           ELSE Range(BoundNames(Details)) = Range(idents(InputMessage.fields))

\* C1's case: a binding that takes fields in the path, in the body and in the query.
C1_Witness ==
    /\ Resolved
    /\ Details.path_fields # << >>
    /\ Details.body.some
    /\ Details.body.value.fields # << >>
    /\ Details.query_str.some
    /\ Details.query_str.value.handling = ExtractFields

\* The fields of the input message that the path extraction left.
AfterPath == Without(InputMessage.fields, Range(idents(Details.path_fields)))

\* The last operation resolved a binding with a wildcard body.
WildcardResolved == Resolved /\ Binding.value.body = Some("*")

\* C2: a wildcard body over a message from which the path took no field is
\* a VerbatimRequest on the input type and leaves the registry as it was;
\* over a message from which the path took a field it is a Body type of the
\* registry that holds exactly the fields the path left.
C2_Wildcard ==
    [][ WildcardResolved' =>
          IF Details'.path_fields = << >>
          THEN /\ Details'.body =
                      Some(MessageDetails(InputMessage'.name, VerbatimRequest, << >>))
               /\ body_messages' = body_messages
               /\ query_messages' = query_messages
          ELSE /\ Details'.body.some
               /\ Details'.body.value.handling = ExtractFields
               /\ Details'.body.value.fields = idents(AfterPath')
               /\ Holds(body_messages', InputMessage'.name,
                        Details'.body.value.ident, AfterPath')
               /\ ~Holds(query_messages', InputMessage'.name,
                         Details'.body.value.ident, AfterPath')
      ]_vars

\* C2's case: a wildcard body taken verbatim over a message with fields, for
\* which an earlier method had a Body synthesized.
C2_Witness ==
    /\ WildcardResolved
    /\ InputMessage.fields # << >>
    /\ IsVerbatim(Details.body)
    /\ InputMessage.name \in DOMAIN body_messages

\* What the body specification takes from the fields the path left: all of
\* them for the wildcard, the named one for a field name, none without a body.
AfterBody ==
    IF ~Binding.value.body.some THEN AfterPath
    ELSE IF Binding.value.body.value = "*" THEN << >>
    ELSE Without(AfterPath, {Binding.value.body.value})

\* No phase took a field from the message.
NothingTaken == Len(AfterBody) = Len(InputMessage.fields)

\* C7: there is no query when no field is left after the path and the body;
\* the query is a VerbatimRequest on the input type when fields are left and
\* none was taken; otherwise it is a Query type of the registry that holds
\* exactly the fields left.  GET /items/{id} without a body over {id, name}
\* gives the path [id] and a synthesized query {name}.
C7_Query ==
    /\ Resolved =>
          IF AfterBody = << >> THEN Details.query_str = None
          ELSE IF NothingTaken
          THEN Details.query_str =
                   Some(MessageDetails(InputMessage.name, VerbatimRequest, << >>))
          ELSE /\ Details.query_str.some
               /\ Details.query_str.value.handling = ExtractFields
               /\ Details.query_str.value.fields = idents(AfterBody)
               /\ Holds(query_messages, InputMessage.name,
                        Details.query_str.value.ident, AfterBody)
    /\ (Resolving /\ last.method_name = "Get" /\ last.input_type = "Item") =>
          /\ Resolved
          /\ idents(Details.path_fields) = <<"id">>
          /\ Details.body = None
          /\ Details.query_str.some
          /\ Details.query_str.value.handling = ExtractFields
          /\ Details.query_str.value.fields = <<"name">>

\* C7's case: the query synthesized from what a path placeholder left.
C7_Witness ==
    /\ Resolved
    /\ Details.path_fields # << >>
    /\ Details.body = None
    /\ Details.query_str.some
    /\ Details.query_str.value.handling = ExtractFields
    /\ Holds(query_messages, InputMessage.name, Details.query_str.value.ident, AfterBody)

\* The last operation resolved a binding whose body names one field, and the
\* field of the input message it names.
FieldResolved ==
    /\ Resolved
    /\ Binding.value.body.some
    /\ Binding.value.body.value # "*"
BodyField ==
    InputMessage.fields[position(InputMessage.fields, Binding.value.body.value)]
BodyFieldIsMessage == type_name(BodyField.type_) \in DOMAIN existing_messages

\* The message had one field and the path took none.
OnlyField == Details.path_fields = << >> /\ Len(InputMessage.fields) = 1

\* C8: a body naming a field whose type is no known message is a
\* VerbatimRequest on the input type, with the registry left as it was,
\* exactly when the message had that one field and the path took none; in
\* every other case it is a Body type of the registry holding that one field.
C8_SingleField ==
    [][ (FieldResolved' /\ ~BodyFieldIsMessage') =>
          IF OnlyField'
          THEN /\ Details'.body =
                      Some(MessageDetails(InputMessage'.name, VerbatimRequest, << >>))
               /\ body_messages' = body_messages
               /\ query_messages' = query_messages
          ELSE /\ Details'.body.some
               /\ Details'.body.value.handling = ExtractFields
               /\ Details'.body.value.fields = <<BodyField'.name>>
               /\ Details'.body.value.ident # InputMessage'.name
               /\ Holds(body_messages', InputMessage'.name,
                        Details'.body.value.ident, <<BodyField'>>)
      ]_vars

\* C8's case: the body names the only field of the message, of a type that
\* is written with the name of a message and is none.
C8_Witness ==
    /\ FieldResolved
    /\ ~BodyFieldIsMessage
    /\ OnlyField
    /\ BodyField.type_.base \in DOMAIN existing_messages
    /\ IsVerbatim(Details.body)

FieldNames == Range(idents(InputMessage.fields))
MissingInPath == Range(PlaceholderNames(Binding.value.pattern)) \ FieldNames
MissingInBody ==
    IF Binding.value.body.some /\ Binding.value.body.value # "*"
    THEN {Binding.value.body.value} \ FieldNames
    ELSE {}

\* C10: resolving a binding whose path template or single-field body names
\* a field the input message does not have returns an error that names such a
\* field, never details and never "no binding".
C10_FieldNotFound ==
    (Resolving /\ Binding.some /\ MissingInPath \cup MissingInBody # {}) =>
        /\ ~last.result.ok
        /\ last.result.error \in
              { "Path field not found: " \o n : n \in MissingInPath }
                \cup { "Field not found: " \o n : n \in MissingInBody }

\* C10's case: the template names a field the message does not have.
C10_Witness ==
    /\ Resolving
    /\ Binding.some
    /\ MissingInPath # {}
    /\ InputMessage.fields # << >>
    /\ ~last.result.ok

----------------------------------------------------------------------------
(* Properties of the registry *)

BodyCall == last.op = "get_or_create_body_message"
QueryCall == last.op = "get_or_create_query_message"
RegistryCall == BodyCall \/ QueryCall

\* The map the last call worked on, and the bucket of its origin.
CalledMap == IF BodyCall THEN body_messages ELSE query_messages
CalledBucket == bucket_of(CalledMap, last.input_message_name)

\* The entries of a bucket whose field set is that of `fields`.
Matching(bucket, fields) ==
    { i \in 1..Len(bucket) : KeySet(bucket[i].fields) = KeySet(fields) }

NoTwins(messages) ==
    \A origin \in DOMAIN messages :
        \A i, j \in 1..Len(messages[origin]) :
            KeySet(messages[origin][i].fields) = KeySet(messages[origin][j].fields)
                => i = j

\* C4: no bucket of the registry holds two entries with structurally equal
\* field sets.
C4_NoTwins == NoTwins(body_messages) /\ NoTwins(query_messages)

\* C4's case: a bucket with two entries whose fields have the same names and
\* differ in a type.
C4_Witness ==
    /\ RegistryCall
    /\ Len(CalledBucket) = 2
    /\ idents(CalledBucket[1].fields) = idents(CalledBucket[2].fields)
    /\ CalledBucket[1].fields # << >>

\* The names of a bucket are the origin, the suffix, the position from 2 on,
\* and the type suffix.
Numbered(messages, suffix) ==
    \A origin \in DOMAIN messages :
        \A k \in 1..Len(messages[origin]) :
            messages[origin][k].name =
                IF k = 1 THEN origin \o suffix \o config.type_suffix
                ELSE origin \o suffix \o ToString(k) \o config.type_suffix

Names(messages) == { m.name : m \in flatten(messages) }

\* C6: under every accepted configuration, no synthesized body type has the
\* name of a synthesized query type, and no call is answered with a name of
\* the other kind.
C6_Separate ==
    /\ Names(body_messages) \cap Names(query_messages) = {}
    /\ BodyCall => last.name \notin Names(query_messages)
    /\ QueryCall => last.name \notin Names(body_messages)

----------------------------------------------------------------------------
(* The index under binding resolution *)

\* What a resolution decides: the path-bound names, and the handling and
\* names of the body and of the query (the names of synthesized types depend
\* on what the registry already holds, the partition does not).
Part(part) ==
    IF part.some THEN <<part.value.handling, part.value.fields>> ELSE << >>

Partition(result) ==
    IF ~result.ok THEN <<"Err", result.error>>
    ELSE IF ~result.value.some THEN <<"None">>
    ELSE <<idents(result.value.value.path_fields),
           Part(result.value.value.body), Part(result.value.value.query_str)>>

\* The same method resolved first of all, on the index as parsed.
ResolvedFirst ==
    LET index == parse_source(<<>>, Buffer)
        r == calculate_messages(options, last.service_name, last.method_name,
                                index[last.input_type], index, << >>, << >>, config)
    IN  IF r.ok THEN Ok(r.value) ELSE Err(r.error)

\* C12: resolution leaves the index as it was parsed, every message with all
\* of its fields and intact, and a method resolves to the partition it would
\* have had as the first method resolved.
C12_PrivateCopy ==
    /\ existing_messages = parse_source(<<>>, Buffer)
    /\ \A k \in DOMAIN existing_messages : is_intact(existing_messages[k])
    /\ Resolving => Partition(last.result) = Partition(ResolvedFirst)

\* A method bound by path only resolved after another method took the body
\* out of the same input type.
C12_Witness ==
    /\ calls = 2
    /\ Resolved
    /\ Details.path_fields # << >>
    /\ ~Details.body.some
    /\ bucket_of(body_messages, last.input_type) # << >>

----------------------------------------------------------------------------
(* Properties of a generation run *)

Generating == last.op = "generate"

\* The i-th method of the service just generated declares no binding.
NoBinding(i) ==
    ~get_http_options(options, last.service.name,
                      last.service.methods[i].proto_name).some

\* The handlers and routes of the module recorded for a service, if any.
ModulesOf(service_name) ==
    { modules[i] : i \in { j \in DOMAIN modules : modules[j].service = service_name } }

HandlerNames(module) ==
    { module.handler_funcs[i].name : i \in DOMAIN module.handler_funcs }

\* The loop of generate_service gets to the i-th method: the service was not
\* refused beforehand and no method before it failed.
GenericWithOpenApi ==
    /\ config.generate_openapi
    /\ state_type_of(config, last.service.name) = Some("Generic")

Reached(i) ==
    /\ ~GenericWithOpenApi
    /\ \A j \in 1..(i - 1) : j \in DOMAIN last.results /\ last.results[j].ok

\* C11: a method without a binding gives Ok(None), has no handler in the
\* service's module, does not make generate_service fail, and the method after
\* it is processed.
C11_NoBinding ==
    Generating =>
        \A i \in DOMAIN last.service.methods :
            (NoBinding(i) /\ Reached(i))
            => /\ i \in DOMAIN last.results
               /\ last.results[i] = Ok(None)
               /\ i < Len(last.service.methods) => i + 1 \in DOMAIN last.results
               /\ \A module \in ModulesOf(last.service.name) :
                      last.service.methods[i].name \notin HandlerNames(module)

\* The details the binding of the i-th method resolves to, whatever the
\* registry holds.
DetailsOf(i) ==
    LET method == last.service.methods[i]
    IN  IF method.input_type \in DOMAIN existing_messages
        THEN LET r == calculate_messages(options, last.service.name, method.proto_name,
                                         existing_messages[method.input_type],
                                         existing_messages, << >>, << >>, config)
             IN  IF r.ok THEN r.value ELSE None
        ELSE None

\* C13: a client-streaming method whose binding has a path-bound field or a
\* query extractor, synthesized or verbatim, makes generate_func fail, and no
\* handler is recorded for it.
C13_ClientStreaming ==
    Generating =>
        \A i \in DOMAIN last.service.methods :
            (/\ Reached(i)
             /\ last.service.methods[i].client_streaming
             /\ DetailsOf(i).some
             /\ \/ DetailsOf(i).value.path_fields # << >>
                \/ DetailsOf(i).value.query_str.some)
            => /\ i \in DOMAIN last.results
               /\ ~last.results[i].ok
               /\ \A module \in ModulesOf(last.service.name) :
                      last.service.methods[i].name \notin HandlerNames(module)

\* The service just generated is left on the default state type.
TraitObjectState == last.service.name \notin DOMAIN config.state_types

HasClientStreaming ==
    \E i \in DOMAIN last.service.methods : last.service.methods[i].client_streaming

HasBoundClientStreaming ==
    \E i \in DOMAIN last.service.methods :
        last.service.methods[i].client_streaming /\ ~NoBinding(i)

AllMethodsOk ==
    \A i \in DOMAIN last.service.methods :
        i \in DOMAIN last.results /\ last.results[i].ok

\* generate_service failed, recorded no module and, when no method failed on
\* its own, says that the trait-object service has client streaming.
RefusedAsTraitObject ==
    /\ ~last.result.ok
    /\ ModulesOf(last.service.name) = {}
    /\ AllMethodsOk =>
          last.result.error =
              "Client streaming methods are not supported when the state type is a trait object: (Service: "
                  \o last.service.name \o ")"

RECURSIVE RegistryAfter(_, _, _)
RegistryAfter(names, body, query) ==
    IF names = << >> THEN [body_messages |-> body, query_messages |-> query]
    ELSE LET service == GenService(Head(names))
             r == generate_service(service, ProstBuffer(service.package), options,
                                   << >>, body, query, << >>, config)
         IN  RegistryAfter(Tail(names), r.body_messages, r.query_messages)

RegistryBefore ==
    RegistryAfter([i \in DOMAIN modules |-> modules[i].service], << >>, << >>)

\* C15: with OpenAPI enabled, generating a service on the generic state type
\* fails with the error that names the service, with no method resolved and
\* the registry as the services before it left it.
C15_GenericOpenApi ==
    (Generating /\ config.generate_openapi
                /\ last.service.name \in DOMAIN config.state_types
                /\ config.state_types[last.service.name] = "Generic")
    => /\ ~last.result.ok
       /\ last.result.error =
              "A generic service state type is not supported when generating OpenAPI documentation: (Service: "
                  \o last.service.name \o ")"
       /\ last.results = << >>
       /\ body_messages = RegistryBefore.body_messages
       /\ query_messages = RegistryBefore.query_messages
       /\ ModulesOf(last.service.name) = {}

\* A generic service refused after another service wrote to the registry.
C15_Witness ==
    /\ Generating
    /\ config.generate_openapi
    /\ state_type_of(config, last.service.name) = Some("Generic")
    /\ ~last.result.ok
    /\ modules # << >>
    /\ query_messages # << >>

\* Every handler recorded so far.
Handlers ==
    UNION { { modules[i].handler_funcs[j] : j \in DOMAIN modules[i].handler_funcs } :
            i \in DOMAIN modules }

HasExtractor(function) ==
    \/ function.path_extractor.some
    \/ function.query_extractor.some
    \/ function.body_extractor.some

\* The payload is what an extractor bound to the request name, or the
\* request built from the extracted fields.
FromExtractors(function) ==
    \/ /\ function.req_payload = req_name(config) \o ".0"
       /\ ~function.request_builder.some
       /\ function.body_extractor.some
       /\ function.body_extractor.value.binds = <<req_name(config)>>
    \/ /\ function.req_payload = req_name(config)
       /\ ~function.request_builder.some
       /\ function.body_extractor.some
       /\ function.body_extractor.value.wrapper = "JsonLines"
    \/ /\ function.req_payload = req_name(config)
       /\ function.request_builder.some

\* C16: a handler passes the unit value or an empty instance of the input
\* type only when it has no path, query or body extractor; a handler with an
\* extractor passes the verbatim extractor's payload or the request built from
\* the extracted fields.
C16_Payload ==
    \A function \in Handlers :
        IF HasExtractor(function)
        THEN FromExtractors(function)
        ELSE function.req_payload \notin {req_name(config), req_name(config) \o ".0"}

\* How many times a struct of that name was written to the buffers.
TimesWritten(name) ==
    LET in(item) == Cardinality({ i \in DOMAIN item.body_structs :
                                      item.body_structs[i].name = name })
                    + Cardinality({ i \in DOMAIN item.query_structs :
                                        item.query_structs[i].name = name })
        at(package) ==
            { <<package, j>> : j \in { j \in DOMAIN buf[package] :
                                       /\ "body_structs" \in DOMAIN buf[package][j]
                                       /\ in(buf[package][j]) > 0 } }
    IN  Cardinality(UNION { at(package) : package \in Packages })

\* Every package of the run was given its finalize_package.
RunDone == \A package \in Packages : Called(buf[package], "finalize_package")

\* C17: no synthesized struct is written twice, and once the callbacks of the
\* run are over each of them, body or query, has been written exactly once.
C17_WrittenOnce ==
    \A name \in Names(body_messages) \cup Names(query_messages) :
        /\ TimesWritten(name) <= 1
        /\ RunDone => TimesWritten(name) = 1

\* What a callback appended to the buffer of a package.
Appended(package) ==
    SubSeq(buf'[package], Len(buf[package]) + 1, Len(buf'[package]))

Delegation(callback, subject) ==
    [by |-> "service_generator", callback |-> callback, subject |-> subject]

StructNames(structs) == { structs[i].name : i \in DOMAIN structs }

\* The callback only delegated to the wrapped generator.
DelegatedOnly(package, callback, subject) ==
    Appended(package) = << Delegation(callback, subject) >>

\* The callback delegated, and then wrote every synthesized struct and every
\* module as the last text of the buffer.
DelegatedThenWrote(package, callback, subject) ==
    /\ Len(Appended(package)) = 2
    /\ Appended(package)[1] = Delegation(callback, subject)
    /\ Appended(package)[2].by = "generator"
    /\ StructNames(Appended(package)[2].body_structs) = Names(body_messages)
    /\ StructNames(Appended(package)[2].query_structs) = Names(query_messages)
    /\ Appended(package)[2].modules = modules

\* generate ran the pipeline of the service (its module is recorded, from the
\* buffer as it was) and delegated last.
PipelineThenDelegated(package) ==
    /\ last'.result.ok
    /\ last'.service.package = package
    /\ modules' = generate_service(last'.service, buf[package], options,
                                   existing_messages, body_messages,
                                   query_messages, modules, config).modules
    /\ Len(modules') = Len(modules) + 1
    /\ DelegatedOnly(package, "generate", last'.service.name)

SubAction(package, on_finalize, on_finalize_package) ==
    /\ Len(buf'[package]) >= Len(buf[package])
    /\ SubSeq(buf'[package], 1, Len(buf[package])) = buf[package]
    /\ buf'[package] # buf[package] =>
          CASE last'.op = "generate" -> PipelineThenDelegated(package)
            [] last'.op = "finalize" -> on_finalize
            [] last'.op = "finalize_package" -> on_finalize_package

C19_Abort ==
    [][/\ (calls' # calls /\ ~last'.result.ok)
            => /\ buf' = buf
               /\ modules' = modules
               /\ \A i \in DOMAIN modules' : modules'[i].service # last'.service.name
               /\ phase' = "panicked"
       /\ phase = "panicked" => UNCHANGED vars]_vars

\* A pipeline that failed at its second method, after the first got a handler
\* and wrote to the registry, in a run that had recorded a module.
C19_Witness ==
    /\ phase = "panicked"
    /\ modules # << >>
    /\ Len(last.results) >= 2
    /\ last.results[1].ok /\ last.results[1].value.some
    /\ body_messages # << >>

\* C20: a second run over the same descriptor set, source text and
\* configuration writes the same text to every buffer, the synthesized structs
\* of different origin messages in the same order.
C20_Deterministic ==
    \A package \in Packages : buf[package] = rerun[package]

\* The buffer of the service's package as generate_service was given it.
BufferGiven ==
    LET items == buf[last.service.package]
    IN  IF last.result.ok THEN SubSeq(items, 1, Len(items) - 1) ELSE items

\* C21: after the generation pass of a service the index holds exactly the
\* structs of the buffer the pass was given and the sentinel "()", and nothing
\* of the buffer of an earlier pass.
C21_Rebuilt ==
    Generating => existing_messages = parse_source(<< >>, structs_of(BufferGiven))

\* The i-th method of the service just generated names a type, as its input
\* or as its output, that the index does not hold.
TypeAbsent(i) ==
    \/ last.service.methods[i].input_type \notin DOMAIN existing_messages
    \/ last.service.methods[i].output_type \notin DOMAIN existing_messages

\* C22: a method whose input type or output type is absent from the index
\* makes generate_func fail with the message-not-found error, and the
\* generation of the service with it.
C22_NotFound ==
    Generating =>
        \A i \in DOMAIN last.service.methods :
            (Reached(i) /\ TypeAbsent(i))
            => /\ ~last.result.ok
               /\ i \in DOMAIN last.results
               /\ \E type \in {last.service.methods[i].input_type,
                               last.service.methods[i].output_type} :
                      last.results[i] =
                          Err("Prost generated message not found: " \o type
                                  \o " for service: " \o last.service.name
                                  \o " method: " \o last.service.methods[i].name)

----------------------------------------------------------------------------
(* Properties of the extraction pass *)

Verbs == {"get", "post", "put", "delete", "patch"}

\* The extensions of a method that are HTTP rules with a recognised verb.
Recognised(method) ==
    { e \in DOMAIN method.options :
        /\ method.options[e].number = HTTP_EXTENSION_TAG
        /\ method.options[e].value.pattern.some
        /\ method.options[e].value.pattern.value.kind \in Verbs }

\* The binding a method declares: verb upper-cased, path template, optional body.
DeclaredBinding(rule) ==
    Some(HttpOption(to_uppercase(rule.pattern.value.kind), rule.pattern.value.path,
                    IF rule.body = "" THEN None ELSE Some(rule.body)))

Declared(method) ==
    IF Recognised(method) = {} THEN None
    ELSE DeclaredBinding(method.options[CHOOSE e \in Recognised(method) :
                                           \A f \in Recognised(method) : e <= f].value)

Extracted == last.op \in {"parse_http_options", "get_http_options"}

\* Two services of the set have the same name and are not the same declaration.
SameNamedServices ==
    \E i, i2 \in DOMAIN fds : \E j \in DOMAIN fds[i].service, j2 \in DOMAIN fds[i2].service :
        /\ fds[i].service[j].name = fds[i2].service[j2].name
        /\ fds[i].service[j] # fds[i2].service[j2]

\* C23: after the pass, the lookup of every method of every service of every
\* file of the set returns the binding the method declares, and nothing when
\* it declares none.
C23_Lookup ==
    Extracted =>
        \A i \in DOMAIN fds : \A j \in DOMAIN fds[i].service :
            \A k \in DOMAIN fds[i].service[j].method :
                get_http_options(options, fds[i].service[j].name,
                                 fds[i].service[j].method[k].name)
                    = Declared(fds[i].service[j].method[k])

\* The same, for the sets in which no two services share a name.
C23_UniqueNames ==
    (Extracted /\ ~SameNamedServices) =>
        \A i \in DOMAIN fds : \A j \in DOMAIN fds[i].service :
            \A k \in DOMAIN fds[i].service[j].method :
                get_http_options(options, fds[i].service[j].name,
                                 fds[i].service[j].method[k].name)
                    = Declared(fds[i].service[j].method[k])

\* The i-th method of the service just generated is streaming and its binding
\* resolved to a handler.
BoundStreaming(i) ==
    /\ last.service.methods[i].client_streaming \/ last.service.methods[i].server_streaming
    /\ last.results[i].ok
    /\ last.results[i].value.some

\* The routes of a router that point at the upgrade handler of a method.
RoutesTo(router, method) ==
    { r \in DOMAIN router.routes : router.routes[r].handler = method.name \o "_ws" }

UpgradeHandlers(module, method) ==
    { h \in DOMAIN module.ws_handler_funcs :
        module.ws_handler_funcs[h].name = method.name \o "_ws" }

\* The method has one upgrade handler and one route to it in each of the two
\* routers, under the path of its binding.
TwoRoutes(module, i) ==
    /\ module.router.ws.some
    /\ Cardinality(UpgradeHandlers(module, last.service.methods[i])) = 1
    /\ module.router.ws.value.ws_proto.with_state = TRUE
    /\ module.router.ws.value.ws_json.with_state = FALSE
    /\ \E p \in DOMAIN module.router.ws.value.ws_proto.routes :
          /\ RoutesTo(module.router.ws.value.ws_proto, last.service.methods[i]) = {p}
          /\ module.router.ws.value.ws_proto.routes[p].path
                 = DetailsOf(i).value.path \o <<"/", "ws", "/", "proto">>
    /\ \E j \in DOMAIN module.router.ws.value.ws_json.routes :
          /\ RoutesTo(module.router.ws.value.ws_json, last.service.methods[i]) = {j}
          /\ module.router.ws.value.ws_json.routes[j].path
                 = DetailsOf(i).value.path \o <<"/", "ws", "/", "json">>

NoRoutes(module, i) ==
    /\ UpgradeHandlers(module, last.service.methods[i]) = {}
    /\ module.router.ws.some =>
          /\ RoutesTo(module.router.ws.value.ws_proto, last.service.methods[i]) = {}
          /\ RoutesTo(module.router.ws.value.ws_json, last.service.methods[i]) = {}

\* C24: in the module of a generated service, with WebSocket generation
\* enabled every streaming method with a resolved binding has exactly two
\* more routes, <path>/ws/proto in the router whose state carries true and
\* <path>/ws/json in the router whose state carries false, both to its one
\* upgrade handler; a unary or unbound method has none, and with the option
\* disabled the module has no WebSocket router at all.
C24_WebSockets ==
    Generating =>
        \A module \in ModulesOf(last.service.name) :
            /\ \A i \in DOMAIN last.service.methods :
                  IF config.generate_web_sockets /\ BoundStreaming(i)
                  THEN TwoRoutes(module, i)
                  ELSE NoRoutes(module, i)
            /\ ~config.generate_web_sockets
                  => (~module.router.ws.some /\ module.ws_handler_funcs = << >>)

\* A module with a server-streaming method routed twice next to a unary one.
C24_Witness ==
    /\ Generating
    /\ config.generate_web_sockets
    /\ \E module \in ModulesOf(last.service.name) :
          \E i, j \in DOMAIN last.service.methods :
              /\ BoundStreaming(i)
              /\ TwoRoutes(module, i)
              /\ ~BoundStreaming(j)
              /\ last.results[j].ok /\ last.results[j].value.some
              /\ NoRoutes(module, j)

\* A module with a client-streaming method routed twice.
C24_ClientWitness ==
    /\ Generating
    /\ config.generate_web_sockets
    /\ \E module \in ModulesOf(last.service.name) :
          \E i \in DOMAIN last.service.methods :
              /\ last.service.methods[i].client_streaming
              /\ TwoRoutes(module, i)

----------------------------------------------------------------------------
(* Properties of the streaming request *)

\* What the request delivers for an item of the stream.
Delivery(item) ==
    IF item.ok THEN Ok(Some(item.value)) ELSE Err(StatusInternal(item.error))

Deliveries(items) == [i \in DOMAIN items |-> Delivery(items[i])]

Buffered == IF helper.next.some THEN <<helper.next.value>> ELSE << >>

\* Received, buffered and still to come make up the stream, in its order.
NothingLost ==
    helper.received \o Deliveries(Buffered) \o Deliveries(helper.lines)
        = Deliveries(helper.source)

\* decode gave the item that was buffered, and nothing when none was.
DecodeGaveBuffered ==
    last.op = "decode" =>
        IF last.buffered.some THEN last.result = Delivery(last.buffered.value)
        ELSE last.result = Ok(None)

\* poll_frame left a buffered item as it was.
PollKeptBuffered ==
    (last.op = "poll_frame" /\ last.buffered.some) => helper.next = last.buffered

\* The end is reported after every item was received.
EndsAfterAll ==
    helper.ended => helper.received = Deliveries(helper.source)

Streaming == helper # << >>

\* C25: under any interleaving of poll_frame and decode on the shared helper,
\* the items received, the buffered item and the items still to come are the
\* stream's items in their order, each once; poll_frame never replaces a
\* buffered item, decode returns the buffered item and nothing when none is
\* buffered, the end is reported only after every item was received, and a
\* request that is driven receives every item and then ends.
C25_Delivery ==
    /\ [](Streaming => (NothingLost /\ DecodeGaveBuffered
                        /\ PollKeptBuffered /\ EndsAfterAll))
    /\ (Streaming ~> (helper.ended /\ helper.received = Deliveries(helper.source)))

\* Three items were received, the second and third alike, the end was
\* reported, and the last decode found nothing buffered.
C25_Witness ==
    /\ Streaming
    /\ helper.ended
    /\ Len(helper.received) = 3
    /\ helper.received[2] = helper.received[3]
    /\ helper.received[1] # helper.received[2]
    /\ last.op = "decode"
    /\ ~last.buffered.some

----------------------------------------------------------------------------
(* Properties of the type replacement *)

\* The last idents of the type's path are the given ones.
TrailingIs(type, tail) ==
    /\ Len(type.segments) >= Len(tail)
    /\ \A i \in DOMAIN tail :
          type.segments[Len(type.segments) - Len(tail) + i] = tail[i]

IsString(type) == TrailingIs(type, <<"alloc", "string", "String">>)

IsBytes(type) ==
    \/ TrailingIs(type, <<"bytes", "Bytes">>)
    \/ TrailingIs(type, <<"alloc", "vec", "Vec">>) /\ type.args = <<U8>>

\* The type with every string type and every bytes type in it, at any depth,
\* replaced, and everything else as it is.
RECURSIVE Substituted(_, _)
Substituted(replacer, type) ==
    IF replacer.string_replacement.some /\ IsString(type)
    THEN replacer.string_replacement.value
    ELSE IF replacer.bytes_replacement.some /\ IsBytes(type)
    THEN replacer.bytes_replacement.value
    ELSE [type EXCEPT !.args = [i \in DOMAIN type.args |->
                                   Substituted(replacer, type.args[i])]]

Visited == ty # << >> /\ last.op = "visit_type_mut"

\* C26: the visited type is the source type with each path ending in
\* alloc::string::String replaced by the string replacement, if there is one,
\* and each path ending in bytes::Bytes and each Vec<u8> replaced by the bytes
\* replacement, if there is one, at every depth of generic arguments, and
\* every other type left as it was.
C26_Replaced ==
    Visited => ty.type = Substituted(ty.replacer, ty.source)

\* Both replacements at work inside one type.
C26_Witness ==
    /\ Visited
    /\ ty.replacer.string_replacement.some
    /\ ty.replacer.bytes_replacement.some
    /\ ty.source = StdHashMap(ProstString, ProstVec(U8))
    /\ ty.type = StdHashMap(SharedStr, BytesBytes)

\* A string two levels down replaced, under a string-only replacer.
C26_Nested ==
    /\ Visited
    /\ ~ty.replacer.bytes_replacement.some
    /\ ty.source = CoreOption(ProstVec(ProstString))
    /\ ty.type = CoreOption(ProstVec(SharedStr))

\* Vec<String> and Bytes untouched under the replacer that does not name them.
C26_Untouched ==
    /\ Visited
    /\ ty.type = ty.source
    /\ \/ ~ty.replacer.string_replacement.some /\ ty.source = ProstVec(ProstString)
       \/ ~ty.replacer.bytes_replacement.some /\ ty.source = ProstVec(ProstBytes)

----------------------------------------------------------------------------
(* Properties of a Message under its own operations *)

Operated == msg # << >>

FieldNamesOf(message) == { message.fields[i].name : i \in DOMAIN message.fields }

\* C27: after any sequence of add_field, remove_field and remove_all_fields,
\* the message has no more fields than its recorded count, is_intact holds
\* exactly when no field was taken out of it since Message::new, and a
\* remove_field of a name no field has returns None and leaves the message
\* as it was.
C27_Intact ==
    Operated =>
        /\ Len(msg.message.fields) <= msg.message.field_count
        /\ is_intact(msg.message) <=> (msg.removed = 0)
        /\ (last.op = "remove_field" /\ last.name \notin FieldNamesOf(last.before))
              => (last.result = None /\ msg.message = last.before)

\* A field was added after another was removed, and an absent name was asked
\* for last: the message has fields and is not intact.
C27_Witness ==
    /\ Operated
    /\ msg.removed = 1
    /\ Len(msg.message.fields) = 2
    /\ ~is_intact(msg.message)
    /\ last.op = "remove_field"
    /\ last.result = None

\* An intact message after a remove_all_fields that found nothing to remove.
C27_NothingRemoved ==
    /\ Operated
    /\ last.op = "remove_all_fields"
    /\ last.result = << >>
    /\ is_intact(msg.message)

----------------------------------------------------------------------------
(* Properties of a message without fields *)

\* The binding just resolved was resolved against a message that had no
\* field to begin with.
ZeroFields == Resolving /\ Binding.some /\ InputMessage.field_count = 0

NeverSingle(message) == is_intact(message) /\ ~intact_single_field(message)

\* The message is intact, and not intact with one field, as it goes into the
\* body phase and as it goes into the query phase.
IntactThroughout(pattern, message, body) ==
    /\ NeverSingle(message)
    /\ pattern.ok => /\ NeverSingle(pattern.message)
                     /\ body.ok => NeverSingle(body.message)

\* C28: a message that had no field to begin with is intact, and never intact
\* with exactly one field, at every phase of the resolution; a wildcard body
\* over it resolves to VerbatimRequest on the message's own type, and a
\* binding without body resolves to no body and no query.
C28_ZeroFields ==
    ZeroFields =>
        /\ IntactThroughout(
               parse_pattern(Binding.value, InputMessage), InputMessage,
               parse_body(Binding.value, InputMessage, existing_messages,
                          body_messages, config))
        /\ (Resolved /\ Binding.value.body = Some("*"))
              => /\ Details.body
                        = Some(MessageDetails(InputMessage.name, VerbatimRequest, << >>))
                 /\ Details.query_str = None
        /\ (Resolved /\ ~Binding.value.body.some)
              => (Details.body = None /\ Details.query_str = None)

\* A wildcard body over the message without fields resolved.
C28_Witness ==
    /\ ZeroFields
    /\ Resolved
    /\ Binding.value.body = Some("*")
    /\ Details.body.value.handling = VerbatimRequest
    /\ Details.body.value.ident = last.input_type

\* A binding without body over the message without fields resolved.
C28_NoBody ==
    /\ ZeroFields
    /\ Resolved
    /\ ~Binding.value.body.some
    /\ Details.query_str = None

----------------------------------------------------------------------------
(* Properties of the whole-request binding *)

Verbatim(details) == details.some /\ details.value.handling = VerbatimRequest

\* The extractor binds the name of the whole request.
WholeRequest(extractor) ==
    /\ extractor.some
    /\ "binds" \in DOMAIN extractor.value
    /\ extractor.value.binds = <<req_name(config)>>

\* The handler's extractors for the details, when it gets any.
OneWholeRequest(parts) ==
    parts.ok => ~(WholeRequest(parts.value.query_extractor)
                  /\ WholeRequest(parts.value.body_extractor))

\* C29: no resolved binding has a verbatim body and a verbatim query; a
\* wildcard body leaves the query absent; a verbatim query occurs only
\* without path fields and without body; so at most one of a handler's query
\* and body extractors binds the whole-request name.
C29_OneVerbatim ==
    Resolved =>
        /\ ~(Verbatim(Details.body) /\ Verbatim(Details.query_str))
        /\ Binding.value.body = Some("*") => ~Details.query_str.some
        /\ Verbatim(Details.query_str)
              => (Details.path_fields = << >> /\ ~Details.body.some)
        /\ \A client_streaming \in BOOLEAN :
              OneWholeRequest(FunctionParts(last.method_name, Details, last.input_type,
                                            client_streaming, req_name(config)))

\* A verbatim query, bound to the whole-request name by the query extractor.
C29_Witness ==
    /\ Resolved
    /\ Verbatim(Details.query_str)
    /\ ~Details.body.some
    /\ WholeRequest(FunctionParts(last.method_name, Details, last.input_type,
                                  FALSE, req_name(config)).value.query_extractor)

\* A verbatim body from the only field of a message, and no query.
C29_VerbatimBody ==
    /\ Resolved
    /\ Verbatim(Details.body)
    /\ ~Details.query_str.some
    /\ Binding.value.body # Some("*")
    /\ InputMessage.field_count = 1

----------------------------------------------------------------------------
(* Properties of the response written to a WebSocket *)

Writing == socket # << >>

\* The i-th send was a close frame for an error status, and the sink took it.
ClosedAt(i) ==
    /\ socket.sent[i].by = "send_ws_close_frame"
    /\ socket.sent[i].ok

\* C30: once a close frame for an error status, of the call or of an item of
\* the response stream, has been sent, no message frame and no close frame is
\* handed to the sink after it.
C30_NothingAfterClose ==
    Writing =>
        \A i \in DOMAIN socket.sent :
            ClosedAt(i) => i = Len(socket.sent)

\* The same for the status of a failed call.
C30_FailedCall ==
    (Writing /\ ~socket.response.ok) =>
        \A i \in DOMAIN socket.sent :
            ClosedAt(i) => i = Len(socket.sent)

============================================================================
